---- MODULE Spec2Model ----
(***************************************************************************)
(* The agentic search orchestrator of ceejay.                              *)
(*                                                                         *)
(*  - runAgenticSearch of src/lib/agent/orchestrator.ts: anchor resolver,  *)
(*    plan -> retrieve -> filter -> rerank -> critic loop under the three  *)
(*    guardrails, and the result finalizer, for a request whose last user  *)
(*    message is not empty.                                                *)
(*  - buildCandidateMap / sortCandidates / converged, the pure helpers.    *)
(*  - the clarification suspend / resume protocol of the tool-calling      *)
(*    orchestrator (src/lib/agent/prompts.ts, second variant, with the     *)
(*    tools of unnamed/part_008).                                          *)
(*                                                                         *)
(* Scores and confidences are the program's numbers in [0,1], held here as *)
(* hundredths (0.74 is 74).  Company ids are 1..NumCompanies; 0 is null.   *)
(***************************************************************************)
EXTENDS Integers, Sequences, FiniteSets, TLC

\* ---------------------------------------------------------------- bounds
NumCompanies == 2
MaxMergeCalls == 3
NumSessions == 2
MaxCalls == 2
MaxRuns == 1
MaxStoreRuns == 2
MaxStoreLoopSteps == 1
RetrievalNames == 2
RetrievalQueries == 2
MaxLoopSteps == 2
MaxCountedCalls == 3
MaxExactLookups == 3
MaxRequests == 2
MaxSends == 2
MaxClientIds == 2
MaxRankedIds == 3
MaxLimitSteps == 3
MaxLimitCalls == 16
BatchSize == 8

Companies == 1..NumCompanies

\* ------------------------------------------------------ program constants
maxIterations == 10
maxToolCalls == 40
EXACT_SHORT_CIRCUIT_THRESHOLD == 95
ANCHOR_MATCH_THRESHOLD == 80
MAX_STEPS == 15
CONFIDENCE_MET_THRESHOLD == 74
EXACT_MATCH_CONFIDENCE == 99
TOP_IDS == 5
MAX_ANCHOR_CANDIDATES == 8
MAX_QUERIES == 6
MAX_STORED_VARIANTS == 8
MAX_CRITIC_VARIANTS == 3
STEP_COUNT == 4
FIXED_REFERENCES == 12
WORKING_SET == 80
RERANK_SET == 40

\* --------------------------------------------------------------- helpers
Max(a, b) == IF a >= b THEN a ELSE b
Min(a, b) == IF a <= b THEN a ELSE b

SeqToSet(s) == {s[i] : i \in 1..Len(s)}

\* Array.prototype.slice(0, n)
Take(s, n) == SubSeq(s, 1, Min(n, Len(s)))

\* Array.from(new Set(values)): first occurrences, in order
RECURSIVE DedupeFrom(_, _)
DedupeFrom(s, seen) ==
  IF s = <<>> THEN <<>>
  ELSE IF Head(s) \in seen THEN DedupeFrom(Tail(s), seen)
  ELSE <<Head(s)>> \o DedupeFrom(Tail(s), seen \cup {Head(s)})

ArrayFromSet(s) == DedupeFrom(s, {})

\* the ids of a candidate list, in order
IdsOf(cands) == [i \in 1..Len(cands) |-> cands[i].companyId]

\* ids of a set, as the ascending list a backend call returns them in
RECURSIVE SetToSeq(_)
SetToSeq(S) ==
  IF S = {} THEN <<>>
  ELSE LET m == CHOOSE x \in S : \A y \in S : x <= y
       IN <<m>> \o SetToSeq(S \ {m})

\* ------------------------------------------------- candidates (pure code)

\* toSearchCandidateFromHybrid
toSearchCandidateFromHybrid(row) ==
  [companyId |-> row.companyId,
   semanticScore |-> row.semanticScore,
   keywordScore |-> row.keywordScore,
   nicheScore |-> row.nicheScore,
   combinedScore |-> row.combinedScore,
   exactMatchScore |-> 0,
   matchedFields |-> row.matchedFields,
   matchedTerms |-> row.matchedTerms,
   evidenceChips |-> <<"Hybrid Match">>]

\* toSearchCandidateFromKeyword
toSearchCandidateFromKeyword(row) ==
  [companyId |-> row.companyId,
   semanticScore |-> 0,
   keywordScore |-> row.keywordScore,
   nicheScore |-> row.nicheScore,
   combinedScore |-> row.combinedScore,
   exactMatchScore |-> 0,
   matchedFields |-> <<"keyword">>,
   matchedTerms |-> row.matchedTerms,
   evidenceChips |-> <<"Keyword Match">>]

\* toSearchCandidateFromTaxonomy
toSearchCandidateFromTaxonomy(row) ==
  [companyId |-> row.companyId,
   semanticScore |-> 0,
   keywordScore |-> 0,
   nicheScore |-> 0,
   combinedScore |-> row.tagScore,
   exactMatchScore |-> 0,
   matchedFields |-> <<"taxonomy">>,
   matchedTerms |-> <<>>,
   evidenceChips |-> <<"Taxonomy Match">>]

\* toSearchCandidateFromExact
toSearchCandidateFromExact(companyId, score) ==
  [companyId |-> companyId,
   semanticScore |-> 0,
   keywordScore |-> 0,
   nicheScore |-> 0,
   combinedScore |-> score,
   exactMatchScore |-> score,
   matchedFields |-> <<"company_name">>,
   matchedTerms |-> <<>>,
   evidenceChips |-> <<"Exact Name">>]

\* position of companyId in an insertion-ordered Map (a sequence), 0 if absent
IndexOfId(map, id) ==
  IF \E i \in 1..Len(map) : map[i].companyId = id
  THEN CHOOSE i \in 1..Len(map) : map[i].companyId = id
  ELSE 0

\* A merge that keeps the first result and ignores the later one.
MergeCandidateFirstWins(current, candidate) == current

\* A merge that keeps the newest result instead of the maximum.
MergeCandidateLastWins(current, candidate) ==
  [current EXCEPT
     !.semanticScore = candidate.semanticScore,
     !.keywordScore = candidate.keywordScore,
     !.nicheScore = candidate.nicheScore,
     !.exactMatchScore = candidate.exactMatchScore,
     !.combinedScore = candidate.combinedScore,
     !.matchedFields = candidate.matchedFields,
     !.matchedTerms = candidate.matchedTerms,
     !.evidenceChips = candidate.evidenceChips]

\* buildCandidateMap, the object written for an id that is already present
MergeCandidate(current, candidate) ==
  [current EXCEPT
     !.semanticScore = Max(current.semanticScore, candidate.semanticScore),
     !.keywordScore = Max(current.keywordScore, candidate.keywordScore),
     !.nicheScore = Max(current.nicheScore, candidate.nicheScore),
     !.exactMatchScore = Max(current.exactMatchScore, candidate.exactMatchScore),
     !.combinedScore = Max(current.combinedScore, candidate.combinedScore),
     !.matchedFields = ArrayFromSet(current.matchedFields \o candidate.matchedFields),
     !.matchedTerms = ArrayFromSet(current.matchedTerms \o candidate.matchedTerms),
     !.evidenceChips = ArrayFromSet(current.evidenceChips \o candidate.evidenceChips)]

\* buildCandidateMap: the Map is the sequence of its values in insertion order
RECURSIVE buildCandidateMap(_, _)
buildCandidateMap(existing, incoming) ==
  IF incoming = <<>> THEN existing
  ELSE LET candidate == Head(incoming)
           i == IndexOfId(existing, candidate.companyId)
       IN buildCandidateMap(
            IF i = 0 THEN Append(existing, candidate)
            ELSE [existing EXCEPT ![i] = MergeCandidate(existing[i], candidate)],
            Tail(incoming))

\* Array.prototype.sort((a, b) => b.combinedScore - a.combinedScore): stable
RECURSIVE InsertByScore(_, _)
InsertByScore(sorted, c) ==
  IF sorted = <<>> THEN <<c>>
  ELSE IF Head(sorted).combinedScore >= c.combinedScore
       THEN <<Head(sorted)>> \o InsertByScore(Tail(sorted), c)
       ELSE <<c>> \o sorted

RECURSIVE SortByCombinedScore(_)
SortByCombinedScore(s) ==
  IF s = <<>> THEN <<>>
  ELSE InsertByScore(SortByCombinedScore(SubSeq(s, 1, Len(s) - 1)), s[Len(s)])

\* sortCandidates: sorted copy with rank and a clamped confidence
sortCandidates(candidates) ==
  LET sorted == SortByCombinedScore(candidates)
  IN [i \in 1..Len(sorted) |->
        [companyId |-> sorted[i].companyId,
         semanticScore |-> sorted[i].semanticScore,
         keywordScore |-> sorted[i].keywordScore,
         nicheScore |-> sorted[i].nicheScore,
         combinedScore |-> sorted[i].combinedScore,
         exactMatchScore |-> sorted[i].exactMatchScore,
         matchedFields |-> sorted[i].matchedFields,
         matchedTerms |-> sorted[i].matchedTerms,
         evidenceChips |-> sorted[i].evidenceChips,
         rank |-> i,
         confidence |-> Min(100, Max(0, sorted[i].combinedScore))]]

\* A convergence test that ignores the order of the ids.
convergedAsSets(previousTopIds, currentTopIds) ==
  /\ previousTopIds # <<>>
  /\ currentTopIds # <<>>
  /\ SeqToSet(Take(previousTopIds, TOP_IDS)) = SeqToSet(Take(currentTopIds, TOP_IDS))

\* converged
converged(previousTopIds, currentTopIds) ==
  /\ previousTopIds # <<>>
  /\ currentTopIds # <<>>
  /\ Take(previousTopIds, TOP_IDS) = Take(currentTopIds, TOP_IDS)

\* ------------------------------------------------------------------ state
VARIABLES
  \* runAgenticSearch (orchestrator.ts)
  pc,                  \* where the request is
  similarityIntent,    \* isSimilarityIntent(userMessage)
  exactNameInputs,     \* number of strings of extractAnchorNameCandidates
  exactIndex,          \* exact-name lookups done
  exactBestByCompany,  \* Map companyId -> best row, in insertion order
  anchorCompany,       \* company id, 0 for null
  iteration,           \* state.iteration
  toolCalls,           \* state.toolCalls
  priorTopIds,         \* state.priorTopIds
  endReason,
  finalPlan,
  plannerCalls,        \* llm.plan_actions calls made
  candidateMap,        \* Map companyId -> SearchCandidate, in insertion order
  queries,             \* number of deduplicated query variants of the pass
  queryIndex,
  ranked,
  reranked,            \* reranked.object.confidence, -1 before the call
  critic,              \* critic.object.decision, "none" before the call
  finalCandidates,
  finalTop,
  finalCompanyIds,     \* ids of finalCompanyMap
  references,
  outcome,             \* "running", "returned" or "threw"
  telemetry,           \* the search_runs row written by finalizeRun
  runtimeExceeded,     \* Date.now() - state.startedAtMs > maxRuntimeMs
  \* the collaborators of the request
  exactSpace,          \* answers search_exact_name_v1 may give
  answerSpace,         \* answers a retrieval call may give
  planSpace,           \* plans the planner completion may return
  rerankSpace,         \* outputs the reranker completion may return
  writeSpace,          \* whether a write to search_runs may succeed, may fail
  variantSpace,        \* how many new query variants the critic may return
  stepSpace,           \* whether a write to search_run_steps may succeed, may fail
  emptyAfterFilters,   \* passes with a candidate_pool.empty_after_filters step row
  \* buildCandidateMap / mergeCandidates on their own
  mergeLog,            \* the retrieval results merged so far, in arrival order
  builtMap,            \* the Map buildCandidateMap has built from them
  toolMap,             \* the Map mergeCandidates has built from them
  exactLog,            \* exact-name lookups made, in the order they were issued
  exactTable,          \* the Map exactBestByCompany built from their rows
  topMatch,            \* exactMatches[0] for that Map: a company, 0 if none
  responses,           \* what each request handled so far has shown the user
  messages,            \* mock chat hook: the messages state, as last rendered
  isLoading,           \* mock chat hook: the isLoading state, as last rendered
  activitySteps,       \* mock chat hook: the statuses of the activity steps, as last rendered
  isMounted,           \* mock chat hook: isMounted.current
  updates,             \* mock chat hook: state updates queued for the next render
  sends,               \* mock chat hook: the sendMessage calls and where each one is
  request,             \* request constraints: mode, previous ids, target and the references returned
  \* the tool-calling orchestrator (prompts.ts) and its clarifications
  calls,                \* the invocations of runAgenticSearch / resume in the process
  runs,                 \* number of SearchAgentState objects created
  agentState,           \* run -> the SearchAgentState object of that run
  pendingClarifications,\* sessionId -> run whose state the entry holds, 0 if none
  aged,                 \* runs whose startedAtMs is over CLARIFICATION_TIMEOUT_MS ago
  expiredSessions,      \* sessionIds whose entry was stored over that time ago
  agentWorld,           \* the requests the process may take and the tool calls
                        \* the model may make in one step
  streams               \* invocation -> the events POST /api/chat has enqueued

loopVars == <<pc, similarityIntent, exactNameInputs, exactIndex, exactBestByCompany,
              anchorCompany, iteration, toolCalls, priorTopIds, endReason, finalPlan,
              plannerCalls, candidateMap, queries, queryIndex, ranked, reranked, critic,
              finalCandidates, finalTop, finalCompanyIds, references, outcome, telemetry,
              runtimeExceeded, exactSpace, answerSpace, planSpace, rerankSpace,
              writeSpace, variantSpace, stepSpace, emptyAfterFilters>>

hookVars == <<messages, isLoading, activitySteps, isMounted, updates, sends>>

mergeVars == <<mergeLog, builtMap, toolMap, exactLog, exactTable, topMatch, responses,
               hookVars, request>>

clarifyVars == <<calls, runs, agentState, pendingClarifications, aged, expiredSessions,
                 agentWorld, streams>>

vars == <<loopVars, mergeVars, clarifyVars>>

\* --------------------------------------------------- collaborators' answers
ExactScores == {70, 80, 95}
Confidences == {73, 74}
Decisions == {"continue", "stop"}

HybridRow(c, s) ==
  [companyId |-> c, semanticScore |-> s, keywordScore |-> s - 10, nicheScore |-> s - 20,
   combinedScore |-> s,
   matchedFields |-> IF s >= 70 THEN <<"description", "niches">> ELSE <<"description">>,
   matchedTerms |-> IF s >= 70 THEN <<"term", "other">> ELSE <<"other">>]

KeywordRow(c, s) ==
  [companyId |-> c, keywordScore |-> s, nicheScore |-> s - 20,
   combinedScore |-> s, matchedTerms |-> <<"term">>]

TaxonomyRow(c, s) == [companyId |-> c, tagScore |-> s]

ExactRow(c, s) == [companyId |-> c, nameScore |-> s]

\* an answer of a backend call: it fails, or it returns a subset of S, each
\* company at one of the score levels
Answers(S, levels, oks) ==
  {[ok |-> o, f |-> f] : o \in oks, f \in UNION {[T -> levels] : T \in SUBSET S}}

\* the ids of an answer in the order the backend returns them: best score
\* first, then by id
RECURSIVE OrderedIds(_)
OrderedIds(f) ==
  IF DOMAIN f = {} THEN <<>>
  ELSE LET c == CHOOSE x \in DOMAIN f :
                  \A y \in DOMAIN f : f[y] < f[x] \/ (f[y] = f[x] /\ x <= y)
       IN <<c>> \o OrderedIds([y \in DOMAIN f \ {c} |-> f[y]])

RowsOf(f, Row(_, _)) ==
  LET ordered == OrderedIds(f)
  IN [i \in 1..Len(ordered) |-> Row(ordered[i], f[ordered[i]])]

MapSeq(s, F(_)) == [i \in 1..Len(s) |-> F(s[i])]

\* permutations of the subsets of S, as sequences without repetition
RECURSIVE Arrangements(_)
Arrangements(S) ==
  {<<>>} \cup UNION {{<<x>> \o t : t \in Arrangements(S \ {x})} : x \in S}

\* reranker outputs over S: a non-empty ranking, an overall confidence, and
\* perCompany either empty or one item per ranked id at that confidence
RerankOutputs(S, overlays) ==
  [order : Arrangements(S) \ {<<>>}, confidence : Confidences, scored : overlays]

\* ------------------------------------------------------------------ plans
\* A plan as the loop uses it: how many query variants, which strategies of
\* searchPriorityOrder, whether a taxonomy filter is set, the target count, the
\* companies that satisfy its status/sector/category/model/niche filters, and
\* how many of its query variants the critic has added.
GuardPlans(S) ==
  {[queryCount |-> 1, priority |-> {"keyword"}, taxonomyFilters |-> FALSE,
    targetResultCount |-> 1, accepts |-> S, criticVariants |-> 0],
   [queryCount |-> MAX_QUERIES, priority |-> {"hybrid", "keyword", "taxonomy"},
    taxonomyFilters |-> TRUE, targetResultCount |-> 1, accepts |-> S,
    criticVariants |-> 0]}

RankPlans(S) ==
  [queryCount : {1},
   priority : {{"keyword"}},
   taxonomyFilters : {FALSE},
   targetResultCount : {1, 12},
   accepts : {S},
   criticVariants : {0}]

\* a call that fails, or returns every company of S at one score
FailOrFind(S, level) ==
  {[ok |-> TRUE, f |-> [c \in S |-> level]], [ok |-> FALSE, f |-> <<>>]}

\* the planner asks for every strategy, with a taxonomy filter
StrategyPlans(S) ==
  {[queryCount |-> RetrievalQueries, priority |-> {"hybrid", "keyword", "taxonomy"},
    taxonomyFilters |-> TRUE, targetResultCount |-> 1, accepts |-> S,
    criticVariants |-> 0]}

\* defaultPlan
defaultPlan ==
  [queryCount |-> 1,
   priority |-> {"hybrid", "keyword", "taxonomy"},
   taxonomyFilters |-> FALSE,
   targetResultCount |-> 12,
   accepts |-> Companies,
   criticVariants |-> 0]

\* ------------------------------------ tool-calling orchestrator: its state
Sessions == 1..NumSessions
CallIds == 1..MaxCalls
RunIds == 1..MaxStoreRuns

\* the SearchAgentState object runAgenticSearch creates; candidates,
\* companyDetailsFetchedCount and preliminaryResults are kept as "not empty",
\* "> 0" and "not null", the clarification fields as "not null"
InitialState(requiresUpfrontClarification) ==
  [toolCallCount |-> 0,
   hasCandidates |-> FALSE,
   companyDetailsFetched |-> FALSE,
   preliminaryResults |-> FALSE,
   requireClarificationBeforeFinalize |-> requiresUpfrontClarification,
   clarificationSatisfied |-> ~requiresUpfrontClarification,
   clarificationPending |-> FALSE,
   clarificationResponse |-> FALSE]

\* no invocation in the slot
IdleCall ==
  [kind |-> "idle", status |-> "idle", session |-> 0, run |-> 0,
   stepCounter |-> 0, steps |-> 0, stepLimit |-> 0,
   clarificationRequested |-> FALSE,
   result |-> "none", iterationCount |-> 0, toolCallCount |-> 0]

\* the tool calls of one step of the agent loop; "search" is any of
\* search_exact_name, search_semantic, search_keyword and search_taxonomy
ToolCallLists ==
  {<<"search">>, <<"get_company_details">>, <<"clarify_with_user">>,
   <<"finalize_search">>, <<"search", "clarify_with_user">>}

\* a model that searches or asks, and nothing else
StoreToolCallLists == {<<"search">>, <<"clarify_with_user">>}

AgentWorld(limit, steps, tools, route) ==
  [runLimit |-> limit, loopSteps |-> steps, toolCallLists |-> tools, route |-> route,
   resumeClock |-> "resumeStartedAtMs", countedCalls |-> MaxCountedCalls]

\* insertSearchRun returned null: the request has no row in search_runs
NoRunRow ==
  [endReason |-> "absent", iterationCount |-> 0,
   toolCallCount |-> 0, finalCandidateCount |-> 0]

\* ------------------------------------------------------------------- Init
InitRequest(exacts, answers, plans, reranks, inputCounts, clientIds, steps, variants, writes, world) ==
  /\ pc = "exact"
  /\ similarityIntent \in BOOLEAN
  /\ exactNameInputs \in inputCounts
  /\ exactIndex = 0
  /\ exactBestByCompany = <<>>
  /\ anchorCompany = 0
  /\ iteration = 0
  /\ toolCalls = 0
  /\ priorTopIds \in clientIds
  /\ endReason = "guardrail_hit"
  /\ finalPlan = defaultPlan
  /\ plannerCalls = 0
  /\ candidateMap = <<>>
  /\ queries = 0
  /\ queryIndex = 0
  /\ ranked = <<>>
  /\ reranked = -1
  /\ critic = "none"
  /\ finalCandidates = <<>>
  /\ finalTop = <<>>
  /\ finalCompanyIds = {}
  /\ references = <<>>
  /\ outcome = "running"
  /\ \E written \in writes :
       telemetry = IF written
                   THEN [endReason |-> "in_progress", iterationCount |-> 0,
                         toolCallCount |-> 0, finalCandidateCount |-> 0]
                   ELSE NoRunRow
  /\ runtimeExceeded = FALSE
  /\ exactSpace = exacts
  /\ answerSpace = answers
  /\ planSpace = plans
  /\ rerankSpace = reranks
  /\ writeSpace = writes
  /\ variantSpace = variants
  /\ stepSpace = steps
  /\ emptyAfterFilters = {}
  /\ mergeLog = <<>>
  /\ builtMap = <<>>
  /\ toolMap = <<>>
  /\ exactLog = <<>>
  /\ exactTable = <<>>
  /\ topMatch = 0
  /\ responses = <<>>
  /\ messages = <<>>
  /\ isLoading = FALSE
  /\ activitySteps = <<>>
  /\ isMounted = TRUE
  /\ updates = <<>>
  /\ sends = [s \in 1..MaxSends |->
                [pc |-> "idle", value |-> "", admitted |-> FALSE, index |-> 0]]
  /\ request = [stage |-> "none", clientIds |-> <<>>, requestMode |-> "new",
                previousCandidateIds |-> <<>>, targetResultCount |-> 1,
                pending |-> <<>>, references |-> <<>>]
  /\ calls = [c \in CallIds |-> IdleCall]
  /\ runs = 0
  /\ agentState = [r \in RunIds |-> InitialState(FALSE)]
  /\ pendingClarifications = [s \in Sessions |-> 0]
  /\ aged = {}
  /\ expiredSessions = {}
  /\ agentWorld = world
  /\ streams = [c \in CallIds |-> <<>>]

\* one company; the planner chooses between one lexical query and six queries
\* on every strategy
Init ==
  InitRequest(Answers({1}, ExactScores, {TRUE}),
              Answers({1}, {70}, BOOLEAN),
              GuardPlans({1}),
              RerankOutputs({1}, {FALSE}),
              {1, MAX_ANCHOR_CANDIDATES}, {<<>>},
              {FALSE}, {0}, {TRUE}, AgentWorld(MaxRuns, MaxLoopSteps, ToolCallLists, FALSE))

\* every company, calls that may fail or return any subset; the planner asks
\* for one lexical query
InitRank ==
  InitRequest(Answers({1}, ExactScores, BOOLEAN),
              Answers(Companies, {70}, BOOLEAN),
              RankPlans(Companies),
              RerankOutputs(Companies, {FALSE}),
              {1}, {<<>>, SetToSeq(Companies)},
              {FALSE}, {0}, {TRUE}, AgentWorld(MaxRuns, MaxLoopSteps, ToolCallLists, FALSE))

\* two extracted names, two query variants on every strategy; every retrieval
\* call fails or returns company 1, below the anchor threshold
InitRetrieval ==
  InitRequest(FailOrFind({1}, 70),
              FailOrFind({1}, 70),
              StrategyPlans({1}),
              RerankOutputs({1}, {FALSE}),
              {RetrievalNames}, {<<>>},
              {FALSE}, {0}, {TRUE}, AgentWorld(MaxRuns, MaxLoopSteps, ToolCallLists, FALSE))

\* one company; the planner chooses between one lexical query and six queries
\* on every strategy; the critic returns no, one or three new query variants
InitExpand ==
  InitRequest(FailOrFind({1}, 70),
              FailOrFind({1}, 70),
              GuardPlans({1}),
              RerankOutputs({1}, {FALSE}),
              {1}, {<<>>},
              {TRUE}, {0, 1, MAX_CRITIC_VARIANTS}, {TRUE},
              AgentWorld(MaxRuns, MaxLoopSteps, ToolCallLists, FALSE))

\* the same request, with a telemetry sink whose writes may fail
InitTelemetry ==
  InitRequest(FailOrFind({1}, 70),
              FailOrFind({1}, 70),
              StrategyPlans({1}),
              RerankOutputs({1}, {FALSE}),
              {RetrievalNames}, {<<>>},
              {FALSE}, {0}, BOOLEAN, AgentWorld(MaxRuns, MaxLoopSteps, ToolCallLists, FALSE))

\* ---------------------------------------------------------------- frames
envVars == <<similarityIntent, exactNameInputs, runtimeExceeded,
             exactSpace, answerSpace, planSpace, rerankSpace, writeSpace,
             variantSpace, stepSpace>>
exactVars == <<exactIndex, exactBestByCompany>>
passVars == <<queries, queryIndex, ranked, reranked, critic>>
finalVars == <<finalTop, finalCompanyIds, references>>

\* finalizeRun: the payload written to the search_runs row
finalizeRun(finalCandidateCount, reason, it, tc) ==
  [endReason |-> reason, iterationCount |-> it,
   toolCallCount |-> tc, finalCandidateCount |-> finalCandidateCount]

\* updateSearchRun, or insertSearchRun when the request has no row: a write
\* that fails logs to the console and leaves the table as it was
WriteRun(payload) ==
  \E written \in writeSpace : telemetry' = IF written THEN payload ELSE telemetry

\* A return that turns a failed write into a failed request.
ReturnAnswerUnlessWriteFails(finalCandidateCount, it, tc) ==
  /\ pc' = "done"
  /\ \E written \in writeSpace :
       IF written
       THEN /\ outcome' = "returned"
            /\ telemetry' = finalizeRun(finalCandidateCount, endReason, it, tc)
       ELSE /\ outcome' = "threw"
            /\ telemetry' = telemetry

\* A return that leaves the passes without progress out of the iteration count.
ReturnAnswerCountsRankedPasses(finalCandidateCount, it, tc) ==
  /\ pc' = "done"
  /\ outcome' = "returned"
  /\ WriteRun(finalizeRun(finalCandidateCount, endReason,
                          it - Cardinality(emptyAfterFilters), tc))

\* await finalizeRun(...), insertSearchRunResults(...) and return the payload
ReturnAnswer(finalCandidateCount, it, tc) ==
  /\ pc' = "done"
  /\ outcome' = "returned"
  /\ WriteRun(finalizeRun(finalCandidateCount, endReason, it, tc))

\* A catch block that rethrows without recording the end reason.
ThrowUnrecorded(it, tc) ==
  /\ pc' = "done"
  /\ outcome' = "threw"
  /\ UNCHANGED telemetry

\* A catch block that goes on to the final answer with the ranking it has.
ContinueWithEarlierRanking(it, tc) ==
  /\ pc' = "finalize"
  /\ UNCHANGED <<outcome, telemetry>>

\* the catch block of runAgenticSearch: record "error" and rethrow
Throw(it, tc) ==
  /\ pc' = "done"
  /\ outcome' = "threw"
  /\ WriteRun(finalizeRun(0, "error", it, tc))

\* ---------------------------------------------------------- anchor resolver
\* rows of one search_exact_name_v1 call folded into exactBestByCompany
RECURSIVE KeepBestRows(_, _)
KeepBestRows(best, rows) ==
  IF rows = <<>> THEN best
  ELSE LET row == Head(rows)
           i == IndexOfId(best, row.companyId)
       IN KeepBestRows(
            IF i = 0 THEN Append(best, row)
            ELSE IF row.nameScore > best[i].nameScore THEN [best EXCEPT ![i] = row]
            ELSE best,
            Tail(rows))

\* exactMatches[0] after the stable descending sort on nameScore; 0 if none
TopExactIndex(best) ==
  IF best = <<>> THEN 0
  ELSE CHOOSE i \in 1..Len(best) :
         /\ \A j \in 1..Len(best) : best[j].nameScore <= best[i].nameScore
         /\ \A j \in 1..(i - 1) : best[j].nameScore < best[i].nameScore

\* one pass of the exact-name loop: one lookup for one extracted name
ExactNameLookup ==
  /\ pc = "exact"
  /\ exactIndex < exactNameInputs
  /\ exactIndex' = exactIndex + 1
  /\ toolCalls' = toolCalls + 1
  /\ \E answer \in exactSpace :
       exactBestByCompany' =
         IF answer.ok
         THEN KeepBestRows(exactBestByCompany, Take(RowsOf(answer.f, ExactRow), 5))
         ELSE exactBestByCompany
  /\ UNCHANGED <<pc, anchorCompany, iteration, priorTopIds, endReason, finalPlan,
                 plannerCalls, candidateMap, finalCandidates, outcome, telemetry>>
  /\ UNCHANGED <<envVars, passVars, finalVars>>
  /\ UNCHANGED <<mergeVars, clarifyVars>>
  /\ UNCHANGED emptyAfterFilters

\* A short circuit that keeps the name score as the confidence.
ExactMatchCandidateByScore(companyId, score) ==
  LET c == toSearchCandidateFromExact(companyId, score)
  IN [companyId |-> c.companyId, semanticScore |-> c.semanticScore,
      keywordScore |-> c.keywordScore, nicheScore |-> c.nicheScore,
      combinedScore |-> c.combinedScore, exactMatchScore |-> c.exactMatchScore,
      matchedFields |-> c.matchedFields, matchedTerms |-> c.matchedTerms,
      evidenceChips |-> c.evidenceChips,
      rank |-> 1, confidence |-> Min(100, Max(0, score))]

\* the exact-match candidate of the short circuit
ExactMatchCandidate(companyId, score) ==
  LET c == toSearchCandidateFromExact(companyId, score)
  IN [companyId |-> c.companyId, semanticScore |-> c.semanticScore,
      keywordScore |-> c.keywordScore, nicheScore |-> c.nicheScore,
      combinedScore |-> c.combinedScore, exactMatchScore |-> c.exactMatchScore,
      matchedFields |-> c.matchedFields, matchedTerms |-> c.matchedTerms,
      evidenceChips |-> c.evidenceChips,
      rank |-> 1, confidence |-> EXACT_MATCH_CONFIDENCE]

\* after the exact-name loop: details lookup, anchor or short circuit
ResolveAnchor ==
  /\ pc = "exact"
  /\ exactIndex = exactNameInputs
  /\ LET t == TopExactIndex(exactBestByCompany)
     IN IF t # 0 /\ exactBestByCompany[t].nameScore >= ANCHOR_MATCH_THRESHOLD
        THEN \E details \in {"throws", "missing", "found"} :
               LET topExact == exactBestByCompany[t]
               IN IF details # "found"
                  THEN /\ Throw(iteration, toolCalls)
                       /\ UNCHANGED <<anchorCompany, finalCandidates, endReason>>
                  ELSE IF similarityIntent
                  THEN /\ anchorCompany' = topExact.companyId
                       /\ pc' = "loop"
                       /\ UNCHANGED <<finalCandidates, endReason, outcome, telemetry>>
                  ELSE IF topExact.nameScore >= EXACT_SHORT_CIRCUIT_THRESHOLD
                  THEN /\ finalCandidates' =
                            <<ExactMatchCandidate(topExact.companyId, topExact.nameScore)>>
                       /\ endReason' = "exact_match"
                       /\ pc' = "finalize"
                       /\ UNCHANGED <<anchorCompany, outcome, telemetry>>
                  ELSE /\ pc' = "loop"
                       /\ UNCHANGED <<anchorCompany, finalCandidates, endReason,
                                      outcome, telemetry>>
        ELSE /\ pc' = "loop"
             /\ UNCHANGED <<anchorCompany, finalCandidates, endReason, outcome, telemetry>>
  /\ UNCHANGED <<iteration, toolCalls, priorTopIds, finalPlan, plannerCalls, candidateMap>>
  /\ UNCHANGED <<envVars, exactVars, passVars, finalVars>>
  /\ UNCHANGED <<mergeVars, clarifyVars>>
  /\ UNCHANGED emptyAfterFilters

\* ------------------------------------------------------- the iteration loop

\* the wall clock passes maxRuntimeMs while the request is in flight
RuntimeCeilingPasses ==
  /\ pc # "done"
  /\ ~runtimeExceeded
  /\ runtimeExceeded' = TRUE
  /\ UNCHANGED <<pc, similarityIntent, exactNameInputs, exactIndex, exactBestByCompany,
                 anchorCompany, iteration, toolCalls, priorTopIds, endReason, finalPlan,
                 plannerCalls, candidateMap, queries, queryIndex, ranked, reranked,
                 critic, finalCandidates, finalTop, finalCompanyIds, references,
                 outcome, telemetry, exactSpace, answerSpace, planSpace, rerankSpace,
                 writeSpace, variantSpace, stepSpace, emptyAfterFilters>>
  /\ UNCHANGED <<mergeVars, clarifyVars>>

\* A loop test that admits one pass too many.
loopConditionOffByOne(next) == next <= maxIterations + 1

\* the for header's test, iteration <= LOOP_LIMITS.maxIterations
loopCondition(next) == next <= maxIterations

\* the for header and the guardrail test at the top of the pass
IterationGuard ==
  /\ pc = "loop"
  /\ IF ~loopCondition(iteration + 1)
     THEN /\ pc' = "finalize"
          /\ UNCHANGED <<iteration, endReason>>
     ELSE /\ iteration' = iteration + 1
          /\ IF runtimeExceeded \/ toolCalls >= maxToolCalls
             THEN /\ endReason' = "guardrail_hit"
                  /\ pc' = "finalize"
             ELSE /\ pc' = "plan"
                  /\ UNCHANGED endReason
  /\ UNCHANGED <<anchorCompany, toolCalls, priorTopIds, finalPlan, plannerCalls,
                 candidateMap, finalCandidates, outcome, telemetry>>
  /\ UNCHANGED <<envVars, exactVars, passVars, finalVars>>
  /\ UNCHANGED <<mergeVars, clarifyVars>>
  /\ UNCHANGED emptyAfterFilters

\* llm.plan_actions
PlanActions ==
  /\ pc = "plan"
  /\ toolCalls' = toolCalls + 1
  /\ plannerCalls' = plannerCalls + 1
  /\ \E ok \in BOOLEAN, planner \in planSpace :
       IF ~ok
       THEN /\ Throw(iteration, toolCalls + 1)
            /\ UNCHANGED <<finalPlan, queries>>
       ELSE /\ finalPlan' = planner
            /\ queries' = Min(planner.queryCount, MAX_QUERIES)
            /\ pc' = "embed"
            /\ UNCHANGED <<outcome, telemetry>>
  /\ UNCHANGED <<anchorCompany, iteration, priorTopIds, endReason, candidateMap,
                 queryIndex, ranked, reranked, critic, finalCandidates>>
  /\ UNCHANGED <<envVars, exactVars, finalVars>>
  /\ UNCHANGED <<mergeVars, clarifyVars>>
  /\ UNCHANGED emptyAfterFilters

\* the test at the top of each pass of the query loop
QueryLoopPc(index, count, tc) ==
  IF index < count /\ tc < maxToolCalls THEN "hybrid" ELSE "taxonomy"

\* llm.embed_query_batch
EmbedQueryBatch ==
  /\ pc = "embed"
  /\ toolCalls' = toolCalls + 1
  /\ queryIndex' = 0
  /\ \E embedded \in BOOLEAN :
       IF embedded
       THEN /\ pc' = QueryLoopPc(0, queries, toolCalls + 1)
            /\ UNCHANGED <<outcome, telemetry>>
       ELSE Throw(iteration, toolCalls + 1)
  /\ UNCHANGED <<anchorCompany, iteration, priorTopIds, endReason, finalPlan,
                 plannerCalls, candidateMap, queries, ranked, reranked, critic,
                 finalCandidates>>
  /\ UNCHANGED <<envVars, exactVars, finalVars>>
  /\ UNCHANGED <<mergeVars, clarifyVars>>
  /\ UNCHANGED emptyAfterFilters

\* A filter that lets the anchor company through.
KeepAnchor(rows, anchor) == rows

\* rows of a retrieval call without the anchor company
WithoutAnchor(rows, anchor) == SelectSeq(rows, LAMBDA row : row.companyId # anchor)

\* supabase.rpc.search_companies_hybrid_v1 for the current query variant
SearchHybrid ==
  /\ pc = "hybrid"
  /\ pc' = "keyword"
  /\ IF "hybrid" \in finalPlan.priority
     THEN /\ toolCalls' = toolCalls + 1
          /\ \E answer \in answerSpace :
               candidateMap' =
                 IF answer.ok
                 THEN buildCandidateMap(candidateMap,
                        MapSeq(WithoutAnchor(RowsOf(answer.f, HybridRow), anchorCompany),
                               toSearchCandidateFromHybrid))
                 ELSE candidateMap
     ELSE UNCHANGED <<toolCalls, candidateMap>>
  /\ UNCHANGED <<anchorCompany, iteration, priorTopIds, endReason, finalPlan,
                 plannerCalls, finalCandidates, outcome, telemetry>>
  /\ UNCHANGED <<envVars, exactVars, passVars, finalVars>>
  /\ UNCHANGED <<mergeVars, clarifyVars>>
  /\ UNCHANGED emptyAfterFilters

\* supabase.rpc.search_companies_keyword_v1 for the current query variant
SearchKeyword ==
  /\ pc = "keyword"
  /\ queryIndex' = queryIndex + 1
  /\ IF "keyword" \in finalPlan.priority
     THEN /\ toolCalls' = toolCalls + 1
          /\ \E answer \in answerSpace :
               candidateMap' =
                 IF answer.ok
                 THEN buildCandidateMap(candidateMap,
                        MapSeq(WithoutAnchor(RowsOf(answer.f, KeywordRow), anchorCompany),
                               toSearchCandidateFromKeyword))
                 ELSE candidateMap
     ELSE UNCHANGED <<toolCalls, candidateMap>>
  /\ pc' = QueryLoopPc(queryIndex + 1, queries, toolCalls')
  /\ UNCHANGED <<anchorCompany, iteration, priorTopIds, endReason, finalPlan,
                 plannerCalls, queries, ranked, reranked, critic, finalCandidates,
                 outcome, telemetry>>
  /\ UNCHANGED <<envVars, exactVars, finalVars>>
  /\ UNCHANGED <<mergeVars, clarifyVars>>
  /\ UNCHANGED emptyAfterFilters

\* A tag-filter call whose catch block rethrows.
SearchByTaxonomyRethrows ==
  /\ pc = "taxonomy"
  /\ IF "taxonomy" \in finalPlan.priority /\ finalPlan.taxonomyFilters
     THEN /\ toolCalls' = toolCalls + 1
          /\ \E answer \in answerSpace :
               IF answer.ok
               THEN /\ candidateMap' =
                         buildCandidateMap(candidateMap,
                           MapSeq(WithoutAnchor(RowsOf(answer.f, TaxonomyRow), anchorCompany),
                                  toSearchCandidateFromTaxonomy))
                    /\ pc' = "hydrate"
                    /\ UNCHANGED <<outcome, telemetry>>
               ELSE /\ Throw(iteration, toolCalls + 1)
                    /\ UNCHANGED candidateMap
     ELSE /\ pc' = "hydrate"
          /\ UNCHANGED <<toolCalls, candidateMap, outcome, telemetry>>
  /\ UNCHANGED <<anchorCompany, iteration, priorTopIds, endReason, finalPlan,
                 plannerCalls, finalCandidates>>
  /\ UNCHANGED <<envVars, exactVars, passVars, finalVars>>
  /\ UNCHANGED <<mergeVars, clarifyVars>>
  /\ UNCHANGED emptyAfterFilters

\* supabase.rpc.search_companies_by_taxonomy_v1
SearchByTaxonomy ==
  /\ pc = "taxonomy"
  /\ pc' = "hydrate"
  /\ IF "taxonomy" \in finalPlan.priority /\ finalPlan.taxonomyFilters
     THEN /\ toolCalls' = toolCalls + 1
          /\ \E answer \in answerSpace :
               candidateMap' =
                 IF answer.ok
                 THEN buildCandidateMap(candidateMap,
                        MapSeq(WithoutAnchor(RowsOf(answer.f, TaxonomyRow), anchorCompany),
                               toSearchCandidateFromTaxonomy))
                 ELSE candidateMap
     ELSE UNCHANGED <<toolCalls, candidateMap>>
  /\ UNCHANGED <<anchorCompany, iteration, priorTopIds, endReason, finalPlan,
                 plannerCalls, finalCandidates, outcome, telemetry>>
  /\ UNCHANGED <<envVars, exactVars, passVars, finalVars>>
  /\ UNCHANGED <<mergeVars, clarifyVars>>
  /\ UNCHANGED emptyAfterFilters

\* filterCandidatesByPlan: hydrated companies that satisfy the plan's filters
filterCandidatesByPlan(candidates, companiesById, plan) ==
  SelectSeq(candidates,
            LAMBDA c : c.companyId \in companiesById /\ c.companyId \in plan.accepts)

\* logStep for the step candidate_pool.empty_after_filters: the row is written
\* when the run row exists and the insert succeeds, a failure is swallowed
logStep(iterationNo) ==
  \E written \in stepSpace :
    emptyAfterFilters' = IF written /\ telemetry # NoRunRow
                         THEN emptyAfterFilters \cup {iterationNo}
                         ELSE emptyAfterFilters

\* A pass that sends an empty list to the reranker.
HydrateAndFilterRanksEmpty ==
  /\ pc = "hydrate"
  /\ LET working == Take(sortCandidates(candidateMap), WORKING_SET)
     IN \E ok \in BOOLEAN, details \in SUBSET SeqToSet(IdsOf(working)) :
          IF ~ok
          THEN /\ Throw(iteration, toolCalls)
               /\ UNCHANGED <<ranked, queries, queryIndex>>
          ELSE LET filtered == Take(filterCandidatesByPlan(working, details, finalPlan),
                                    RERANK_SET)
                   kept == IF anchorCompany # 0
                           THEN WithoutAnchor(filtered, anchorCompany)
                           ELSE filtered
               IN /\ pc' = "rerank"
                  /\ ranked' = kept
                  /\ UNCHANGED <<queries, queryIndex, outcome, telemetry>>
  /\ UNCHANGED <<anchorCompany, iteration, toolCalls, priorTopIds, endReason, finalPlan,
                 plannerCalls, candidateMap, reranked, critic, finalCandidates>>
  /\ UNCHANGED <<envVars, exactVars, finalVars>>
  /\ UNCHANGED <<mergeVars, clarifyVars>>
  /\ UNCHANGED emptyAfterFilters

\* sort, hydrate (get_companies_by_ids_v1), filter by plan, drop the anchor
HydrateAndFilter ==
  /\ pc = "hydrate"
  /\ LET working == Take(sortCandidates(candidateMap), WORKING_SET)
     IN \E ok \in BOOLEAN, details \in SUBSET SeqToSet(IdsOf(working)) :
          IF ~ok
          THEN /\ Throw(iteration, toolCalls)
               /\ UNCHANGED <<ranked, queries, queryIndex, emptyAfterFilters>>
          ELSE LET filtered == Take(filterCandidatesByPlan(working, details, finalPlan),
                                    RERANK_SET)
                   kept == IF anchorCompany # 0
                           THEN WithoutAnchor(filtered, anchorCompany)
                           ELSE filtered
               IN IF kept = <<>>
                  THEN /\ pc' = "loop"
                       /\ ranked' = <<>>
                       /\ queries' = 0
                       /\ queryIndex' = 0
                       /\ logStep(iteration)
                       /\ UNCHANGED <<outcome, telemetry>>
                  ELSE /\ pc' = "rerank"
                       /\ ranked' = kept
                       /\ UNCHANGED <<queries, queryIndex, outcome, telemetry,
                                      emptyAfterFilters>>
  /\ UNCHANGED <<anchorCompany, iteration, toolCalls, priorTopIds, endReason, finalPlan,
                 plannerCalls, candidateMap, reranked, critic, finalCandidates>>
  /\ UNCHANGED <<envVars, exactVars, finalVars>>
  /\ UNCHANGED <<mergeVars, clarifyVars>>

\* rankedCompanyIds.indexOf(id), 999 when absent
RerankKey(order, id) ==
  IF \E i \in 1..Len(order) : order[i] = id
  THEN (CHOOSE i \in 1..Len(order) : order[i] = id) - 1
  ELSE 999

RECURSIVE InsertByRerank(_, _, _)
InsertByRerank(sorted, c, order) ==
  IF sorted = <<>> THEN <<c>>
  ELSE IF RerankKey(order, Head(sorted).companyId) <= RerankKey(order, c.companyId)
       THEN <<Head(sorted)>> \o InsertByRerank(Tail(sorted), c, order)
       ELSE <<c>> \o sorted

RECURSIVE SortByRerank(_, _)
SortByRerank(s, order) ==
  IF s = <<>> THEN <<>>
  ELSE InsertByRerank(SortByRerank(SubSeq(s, 1, Len(s) - 1), order), s[Len(s)], order)

\* the reranked list: reordered, re-ranked, perCompany confidence laid over
ApplyRerank(candidates, order, perCompany) ==
  LET sorted == SortByRerank(candidates, order)
  IN [i \in 1..Len(sorted) |->
        [sorted[i] EXCEPT
           !.rank = i,
           !.confidence = IF sorted[i].companyId \in DOMAIN perCompany
                          THEN perCompany[sorted[i].companyId]
                          ELSE @]]

\* llm.rerank_candidates
RerankCandidates ==
  /\ pc = "rerank"
  /\ toolCalls' = toolCalls + 1
  /\ \E ok \in BOOLEAN, output \in rerankSpace :
       IF ok
       THEN /\ ranked' = ApplyRerank(ranked, output.order,
                           IF output.scored
                           THEN [c \in SeqToSet(output.order) |-> output.confidence]
                           ELSE <<>>)
            /\ reranked' = output.confidence
            /\ pc' = "critic"
            /\ UNCHANGED <<outcome, telemetry>>
       ELSE /\ Throw(iteration, toolCalls + 1)
            /\ UNCHANGED <<ranked, reranked>>
  /\ UNCHANGED <<anchorCompany, iteration, priorTopIds, endReason, finalPlan,
                 plannerCalls, candidateMap, queries, queryIndex, critic,
                 finalCandidates>>
  /\ UNCHANGED <<envVars, exactVars, finalVars>>
  /\ UNCHANGED <<mergeVars, clarifyVars>>
  /\ UNCHANGED emptyAfterFilters

\* llm.critic_continue_or_stop
CriticContinueOrStop ==
  /\ pc = "critic"
  /\ toolCalls' = toolCalls + 1
  /\ \E decision \in {"throws"} \cup Decisions :
       IF decision = "throws"
       THEN /\ Throw(iteration, toolCalls + 1)
            /\ UNCHANGED critic
       ELSE /\ critic' = decision
            /\ pc' = "policy"
            /\ UNCHANGED <<outcome, telemetry>>
  /\ UNCHANGED <<anchorCompany, iteration, priorTopIds, endReason, finalPlan,
                 plannerCalls, candidateMap, queries, queryIndex, ranked, reranked,
                 finalCandidates>>
  /\ UNCHANGED <<envVars, exactVars, finalVars>>
  /\ UNCHANGED <<mergeVars, clarifyVars>>
  /\ UNCHANGED emptyAfterFilters

\* A policy that tests convergence before the critic's stop.
PolicyEndReasonConvergenceFirst(decision, confidence, convergedNow) ==
  IF convergedNow THEN "converged"
  ELSE IF decision = "stop" /\ confidence >= CONFIDENCE_MET_THRESHOLD THEN "confidence_met"
  ELSE ""

\* the end reason the stop/continue policy gives, "" to go on
PolicyEndReason(decision, confidence, convergedNow) ==
  IF decision = "stop" /\ confidence >= CONFIDENCE_MET_THRESHOLD THEN "confidence_met"
  ELSE IF convergedNow THEN "converged"
  ELSE ""

\* finalPlan.queryVariants = Array.from(new Set([...old, ...new])).slice(0, 8),
\* for new variants the plan does not hold yet
ExtendPlan(plan, newQueryVariants) ==
  LET stored == Min(plan.queryCount + newQueryVariants, MAX_STORED_VARIANTS)
  IN [plan EXCEPT !.queryCount = stored,
                  !.criticVariants = stored - plan.queryCount]

\* the end of a pass: keep the ranking, test convergence, stop or go on; the
\* critic's new variants are read here
StopContinuePolicy ==
  /\ pc = "policy"
  /\ LET topIds == Take(IdsOf(ranked), TOP_IDS)
         convergedNow == converged(priorTopIds, topIds)
         reason == PolicyEndReason(critic, reranked, convergedNow)
     IN /\ finalCandidates' = ranked
        /\ priorTopIds' = topIds
        /\ IF reason # ""
           THEN /\ endReason' = reason
                /\ pc' = "finalize"
                /\ UNCHANGED finalPlan
           ELSE /\ pc' = "loop"
                /\ \E newQueryVariants \in variantSpace :
                     finalPlan' = IF critic = "continue" /\ newQueryVariants > 0
                                  THEN ExtendPlan(finalPlan, newQueryVariants)
                                  ELSE finalPlan
                /\ UNCHANGED endReason
  /\ queries' = 0
  /\ queryIndex' = 0
  /\ ranked' = <<>>
  /\ reranked' = -1
  /\ critic' = "none"
  /\ UNCHANGED <<anchorCompany, iteration, toolCalls, plannerCalls,
                 candidateMap, outcome, telemetry>>
  /\ UNCHANGED <<envVars, exactVars, finalVars>>
  /\ UNCHANGED <<mergeVars, clarifyVars>>
  /\ UNCHANGED emptyAfterFilters

\* ------------------------------------------------------- result finalizer

\* A reference that carries the candidate's own chips only.
ReferenceOfCandidateChips(candidate, anchor) ==
  [companyId |-> candidate.companyId,
   evidenceChips |-> Take(ArrayFromSet(candidate.evidenceChips), 4),
   confidence |-> candidate.confidence]

\* a returned reference: chips led by the anchor chip, deduplicated, four at most
ReferenceOf(candidate, anchor) ==
  [companyId |-> candidate.companyId,
   evidenceChips |->
     Take(ArrayFromSet((IF anchor # 0 THEN <<"Similar to anchor">> ELSE <<>>)
                       \o candidate.evidenceChips), 4),
   confidence |-> candidate.confidence]

\* A finalizer that returns every candidate left after the anchor was removed.
FinalizeCandidatesUncut ==
  /\ pc = "finalize"
  /\ LET filteredFinalCandidates ==
           IF anchorCompany # 0 THEN WithoutAnchor(finalCandidates, anchorCompany)
           ELSE finalCandidates
         top == filteredFinalCandidates
     IN IF finalCandidates = <<>> \/ top = <<>>
        THEN /\ ReturnAnswer(0, iteration, toolCalls)
             /\ references' = <<>>
             /\ UNCHANGED <<finalTop, finalCompanyIds>>
        ELSE \E ok \in BOOLEAN, details \in SUBSET SeqToSet(IdsOf(top)) :
               IF ok
               THEN /\ pc' = "summary"
                    /\ finalTop' = top
                    /\ finalCompanyIds' = details
                    /\ UNCHANGED <<references, outcome, telemetry>>
               ELSE /\ Throw(iteration, toolCalls)
                    /\ UNCHANGED <<finalTop, finalCompanyIds, references>>
  /\ UNCHANGED <<anchorCompany, iteration, toolCalls, priorTopIds, endReason, finalPlan,
                 plannerCalls, candidateMap, finalCandidates>>
  /\ UNCHANGED <<envVars, exactVars, passVars>>
  /\ UNCHANGED <<mergeVars, clarifyVars>>
  /\ UNCHANGED emptyAfterFilters

\* the candidates to return: anchor removed, cut to the target count; an empty
\* list returns at once, otherwise the final details lookup runs
FinalizeCandidates ==
  /\ pc = "finalize"
  /\ LET filteredFinalCandidates ==
           IF anchorCompany # 0 THEN WithoutAnchor(finalCandidates, anchorCompany)
           ELSE finalCandidates
         top == Take(filteredFinalCandidates, Max(1, finalPlan.targetResultCount))
     IN IF finalCandidates = <<>> \/ top = <<>>
        THEN /\ ReturnAnswer(0, iteration, toolCalls)
             /\ references' = <<>>
             /\ UNCHANGED <<finalTop, finalCompanyIds>>
        ELSE \E ok \in BOOLEAN, details \in SUBSET SeqToSet(IdsOf(top)) :
               IF ok
               THEN /\ pc' = "summary"
                    /\ finalTop' = top
                    /\ finalCompanyIds' = details
                    /\ UNCHANGED <<references, outcome, telemetry>>
               ELSE /\ Throw(iteration, toolCalls)
                    /\ UNCHANGED <<finalTop, finalCompanyIds, references>>
  /\ UNCHANGED <<anchorCompany, iteration, toolCalls, priorTopIds, endReason, finalPlan,
                 plannerCalls, candidateMap, finalCandidates>>
  /\ UNCHANGED <<envVars, exactVars, passVars>>
  /\ UNCHANGED <<mergeVars, clarifyVars>>
  /\ UNCHANGED emptyAfterFilters

\* llm.final_summary, the references, finalizeRun and the return
FinalSummary ==
  /\ pc = "summary"
  /\ toolCalls' = toolCalls + 1
  /\ \E ok \in BOOLEAN :
       IF ok
       THEN LET hydrated == SelectSeq(finalTop, LAMBDA c : c.companyId \in finalCompanyIds)
                refs == MapSeq(hydrated, LAMBDA c : ReferenceOf(c, anchorCompany))
            IN /\ references' = refs
               /\ ReturnAnswer(Len(refs), iteration, toolCalls + 1)
       ELSE /\ Throw(iteration, toolCalls + 1)
            /\ UNCHANGED references
  /\ UNCHANGED <<anchorCompany, iteration, priorTopIds, endReason, finalPlan,
                 plannerCalls, candidateMap, finalCandidates, finalTop, finalCompanyIds>>
  /\ UNCHANGED <<envVars, exactVars, passVars>>
  /\ UNCHANGED <<mergeVars, clarifyVars>>
  /\ UNCHANGED emptyAfterFilters

\* ------------------------------------------------------------ specification
Next ==
  \/ ExactNameLookup
  \/ ResolveAnchor
  \/ RuntimeCeilingPasses
  \/ IterationGuard
  \/ PlanActions
  \/ EmbedQueryBatch
  \/ SearchHybrid
  \/ SearchKeyword
  \/ SearchByTaxonomy
  \/ HydrateAndFilter
  \/ RerankCandidates
  \/ CriticContinueOrStop
  \/ StopContinuePolicy
  \/ FinalizeCandidates
  \/ FinalSummary

Spec == Init /\ [][Next]_vars

SpecRank == InitRank /\ [][Next]_vars

SpecRetrieval == InitRetrieval /\ [][Next]_vars

SpecTelemetry == InitTelemetry /\ [][Next]_vars

SpecExpand == InitExpand /\ [][Next]_vars

\* every call the request awaits returns or fails, so the request moves on
FairSpec == Init /\ [][Next]_vars /\ WF_vars(Next)

\* ----------------------------------- the tool-calling variant's candidates
\* (unnamed/part_008: no evidence chips; an optional companyName, 0 when
\* undefined, and optional matchedNiches, <<>> when undefined)

\* buildCandidateFromExact
buildCandidateFromExact(companyId, score, matchedName) ==
  [companyId |-> companyId, companyName |-> matchedName,
   semanticScore |-> 0, keywordScore |-> 0, nicheScore |-> 0,
   combinedScore |-> score, exactMatchScore |-> score,
   matchedFields |-> <<"company_name">>, matchedTerms |-> <<>>, matchedNiches |-> <<>>]

\* buildCandidateFromHybrid
buildCandidateFromHybrid(row) ==
  [companyId |-> row.companyId, companyName |-> 0,
   semanticScore |-> row.semanticScore, keywordScore |-> row.keywordScore,
   nicheScore |-> row.nicheScore, combinedScore |-> row.combinedScore,
   exactMatchScore |-> 0,
   matchedFields |-> row.matchedFields, matchedTerms |-> row.matchedTerms,
   matchedNiches |-> <<>>]

\* buildCandidateFromKeyword
buildCandidateFromKeyword(row) ==
  [companyId |-> row.companyId, companyName |-> 0,
   semanticScore |-> 0, keywordScore |-> row.keywordScore,
   nicheScore |-> row.nicheScore, combinedScore |-> row.combinedScore,
   exactMatchScore |-> 0,
   matchedFields |-> <<"keyword">>, matchedTerms |-> row.matchedTerms,
   matchedNiches |-> <<>>]

\* buildCandidateFromTaxonomy
buildCandidateFromTaxonomy(row) ==
  [companyId |-> row.companyId, companyName |-> 0,
   semanticScore |-> 0, keywordScore |-> 0, nicheScore |-> 0,
   combinedScore |-> row.tagScore, exactMatchScore |-> 0,
   matchedFields |-> <<"taxonomy">>, matchedTerms |-> <<>>, matchedNiches |-> <<>>]

\* mergeCandidates, the object written for an id that is already present
MergeToolCandidate(current, candidate) ==
  [current EXCEPT
     !.companyName = IF current.companyName # 0 THEN current.companyName
                     ELSE candidate.companyName,
     !.semanticScore = Max(current.semanticScore, candidate.semanticScore),
     !.keywordScore = Max(current.keywordScore, candidate.keywordScore),
     !.nicheScore = Max(current.nicheScore, candidate.nicheScore),
     !.exactMatchScore = Max(current.exactMatchScore, candidate.exactMatchScore),
     !.combinedScore = Max(current.combinedScore, candidate.combinedScore),
     !.matchedFields = ArrayFromSet(current.matchedFields \o candidate.matchedFields),
     !.matchedTerms = ArrayFromSet(current.matchedTerms \o candidate.matchedTerms),
     !.matchedNiches = ArrayFromSet(current.matchedNiches \o candidate.matchedNiches)]

\* mergeCandidates
RECURSIVE mergeCandidates(_, _)
mergeCandidates(existing, incoming) ==
  IF incoming = <<>> THEN existing
  ELSE LET candidate == Head(incoming)
           i == IndexOfId(existing, candidate.companyId)
       IN mergeCandidates(
            IF i = 0 THEN Append(existing, candidate)
            ELSE [existing EXCEPT ![i] = MergeToolCandidate(existing[i], candidate)],
            Tail(incoming))

\* ------------------------------------------------- merging, on its own
\* One retrieval result: the strategy that found the company and its score.
Strategies == {"exact", "hybrid", "keyword", "taxonomy"}
MergeScores == {40, 70}
RetrievalResults == [strategy : Strategies, companyId : Companies, score : MergeScores]

\* the orchestrator's candidate for a result
CandidateOf(r) ==
  CASE r.strategy = "exact" -> toSearchCandidateFromExact(r.companyId, r.score)
    [] r.strategy = "hybrid" ->
         toSearchCandidateFromHybrid(HybridRow(r.companyId, r.score))
    [] r.strategy = "keyword" ->
         toSearchCandidateFromKeyword(KeywordRow(r.companyId, r.score))
    [] OTHER -> toSearchCandidateFromTaxonomy(TaxonomyRow(r.companyId, r.score))

\* the tool-calling variant's candidate for a result
ToolCandidateOf(r) ==
  CASE r.strategy = "exact" -> buildCandidateFromExact(r.companyId, r.score, r.companyId)
    [] r.strategy = "hybrid" -> buildCandidateFromHybrid(HybridRow(r.companyId, r.score))
    [] r.strategy = "keyword" -> buildCandidateFromKeyword(KeywordRow(r.companyId, r.score))
    [] OTHER -> buildCandidateFromTaxonomy(TaxonomyRow(r.companyId, r.score))

InitMerge ==
  /\ InitRequest({}, {}, {}, {}, {0}, {<<>>}, {FALSE}, {0}, {TRUE}, AgentWorld(MaxRuns, MaxLoopSteps, ToolCallLists, FALSE))
  /\ similarityIntent = FALSE

\* one more retrieval result lands and is merged into both Maps
MergeRetrievalResult ==
  /\ Len(mergeLog) < MaxMergeCalls
  /\ \E r \in RetrievalResults :
       /\ mergeLog' = Append(mergeLog, r)
       /\ builtMap' = buildCandidateMap(builtMap, <<CandidateOf(r)>>)
       /\ toolMap' = mergeCandidates(toolMap, <<ToolCandidateOf(r)>>)
  /\ UNCHANGED <<exactLog, exactTable, topMatch, responses, hookVars, request>>
  /\ UNCHANGED <<loopVars, clarifyVars>>

NextMerge == MergeRetrievalResult

SpecMerge == InitMerge /\ [][NextMerge]_vars

\* --------------------------------------- the anchor resolver, taken alone
\* the extracted names, as their places in lexical order; extraction keeps the
\* order of the message and removes duplicates
CandidateTexts == 1..MaxExactLookups
AnchorScores == {80, 95}

\* exactMatches[0].companyId, 0 when there is no match
TopExactCompany(best) ==
  IF TopExactIndex(best) = 0 THEN 0 ELSE best[TopExactIndex(best)].companyId

InitAnchor == InitMerge

\* one pass of the exact-name loop for one more extracted name, and the sort
\* that follows the loop
LookupExactName ==
  /\ Len(exactLog) < MaxExactLookups
  /\ \E candidateText \in CandidateTexts, answer \in Answers(Companies, AnchorScores, BOOLEAN) :
       /\ \A i \in 1..Len(exactLog) : exactLog[i].candidateText # candidateText
       /\ exactLog' = Append(exactLog, [candidateText |-> candidateText, answer |-> answer])
       /\ exactTable' = IF answer.ok
                        THEN KeepBestRows(exactTable, Take(RowsOf(answer.f, ExactRow), 5))
                        ELSE exactTable
       /\ topMatch' = TopExactCompany(exactTable')
  /\ UNCHANGED <<mergeLog, builtMap, toolMap, responses, hookVars, request>>
  /\ UNCHANGED <<loopVars, clarifyVars>>

NextAnchor == LookupExactName

SpecAnchor == InitAnchor /\ [][NextAnchor]_vars

\* ------------------------------------ what a failed request shows the user
\* a text is the list of its parts; the parts written by a collaborator are
\* the error texts of the database and of the completion service
SchemaMismatchText == "structure of query does not match function result type"
DatabaseTexts == {"permission denied for function", SchemaMismatchText}
ServiceTexts == {"429 rate limit reached for requests"}
InternalTexts == DatabaseTexts \cup ServiceTexts
RpcFunctions == {"search_exact_name_v1", "search_companies_hybrid_v1"}
SEARCH_UNAVAILABLE_MESSAGE == "search unavailable"
MigrationHint == " Apply Supabase migration 0002_rpc_type_fixes.sql."

NoFailure == [origin |-> "none", fn |-> "", text |-> ""]

\* the failures of one request: an rpc returns an error, a completion call
\* throws
Failures ==
  [origin : {"rpc"}, fn : RpcFunctions, text : DatabaseTexts]
    \cup [origin : {"llm"}, fn : {""}, text : ServiceTexts]

\* runRpc: `${fn} failed: ${error.message}${hint}`
runRpc(fn, text) ==
  <<fn, " failed: ", text>>
    \o (IF text = SchemaMismatchText THEN <<MigrationHint>> ELSE <<>>)

\* error.message of the Error that reaches the catch block
ErrorMessage(failure) ==
  IF failure.origin = "rpc" THEN runRpc(failure.fn, failure.text) ELSE <<failure.text>>

\* the older route's catch: message = error.message
ErrorEvent(failure) == [type |-> "error", message |-> ErrorMessage(failure)]

\* buildFallbackResponse(`Search failed: ${message}`), sent as the final answer
FallbackAnswer(failure) ==
  [type |-> "final_answer", message |-> <<"Search failed: ">> \o ErrorMessage(failure)]

FinalAnswerEvent == [type |-> "final_answer", message |-> <<"summary">>]

\* one NDJSON line of the response, with the request it answers
Response(surface, failure, event) ==
  [surface |-> surface, failure |-> failure, type |-> event.type, message |-> event.message]

\* POST of the older route over the iteration-loop orchestrator, which records
\* the failure and rethrows
OlderRoutePOST ==
  /\ Len(responses) < MaxRequests
  /\ \E failure \in Failures \cup {NoFailure} :
       responses' = Append(responses,
                           Response("older route", failure,
                                    IF failure = NoFailure THEN FinalAnswerEvent
                                    ELSE ErrorEvent(failure)))
  /\ UNCHANGED <<mergeLog, builtMap, toolMap, exactLog, exactTable, topMatch, hookVars, request>>
  /\ UNCHANGED <<loopVars, clarifyVars>>

\* POST of the chat route over the tool-calling orchestrator: the orchestrator
\* catches the failure and returns the fallback answer, or the route catches it
ChatRoutePOST ==
  /\ Len(responses) < MaxRequests
  /\ \E failure \in Failures \cup {NoFailure}, caught \in BOOLEAN :
       responses' = Append(responses,
                           Response("chat route", failure,
                                    IF failure = NoFailure THEN FinalAnswerEvent
                                    ELSE IF caught
                                    THEN [type |-> "final_answer",
                                          message |-> <<SEARCH_UNAVAILABLE_MESSAGE>>]
                                    ELSE [type |-> "error",
                                          message |-> <<SEARCH_UNAVAILABLE_MESSAGE>>]))
  /\ UNCHANGED <<mergeLog, builtMap, toolMap, exactLog, exactTable, topMatch, hookVars, request>>
  /\ UNCHANGED <<loopVars, clarifyVars>>

\* the single-pass tool-calling orchestrator, whose catch returns the fallback
\* answer built from the error
SinglePassPOST ==
  /\ Len(responses) < MaxRequests
  /\ \E failure \in Failures \cup {NoFailure} :
       responses' = Append(responses,
                           Response("single pass", failure,
                                    IF failure = NoFailure THEN FinalAnswerEvent
                                    ELSE FallbackAnswer(failure)))
  /\ UNCHANGED <<mergeLog, builtMap, toolMap, exactLog, exactTable, topMatch, hookVars, request>>
  /\ UNCHANGED <<loopVars, clarifyVars>>

NextFailure == OlderRoutePOST \/ ChatRoutePOST \/ SinglePassPOST

SpecFailure == InitMerge /\ [][NextFailure]_vars

\* ------------------------------------------------------ the mock chat hook
\* the texts a caller passes to sendMessage
Values == {"", " ", "show companies"}

\* value.trim()
trim(value) == IF value = " " THEN "" ELSE value

\* makeMessage: the id is unique to the call and the role
makeMessage(role, send, referenceCount) ==
  [id |-> <<send, role>>, role |-> role, references |-> referenceCount]

\* one queued state update applied to the state of the previous render
ApplyUpdate(state, update) ==
  CASE update.set = "messages" ->
         [state EXCEPT !.messages = Append(@, update.arg)]
    [] update.set = "isLoading" ->
         [state EXCEPT !.isLoading = update.arg]
    [] update.set = "initialSteps" ->
         [state EXCEPT !.activitySteps = [i \in 1..STEP_COUNT |-> "pending"]]
    [] update.set = "runStep" ->
         [state EXCEPT !.activitySteps =
            [i \in 1..Len(@) |-> IF i - 1 < update.arg THEN "completed"
                                 ELSE IF i - 1 = update.arg THEN "running"
                                 ELSE "pending"]]
    [] update.set = "completeSteps" ->
         [state EXCEPT !.activitySteps = [i \in 1..Len(@) |-> "completed"]]
    [] update.set = "clearSteps" ->
         [state EXCEPT !.activitySteps = <<>>]

RECURSIVE ApplyUpdates(_, _)
ApplyUpdates(state, queue) ==
  IF queue = <<>> THEN state
  ELSE ApplyUpdates(ApplyUpdate(state, Head(queue)), Tail(queue))

\* a state setter called with these updates; an unmounted component ignores it
SetState(queue) == IF isMounted THEN updates \o queue ELSE updates

\* A guard that tests the text only.
RejectsEmptyOnly(value) == trim(value) = ""

\* !trimmed || isLoading, with isLoading of the render the callback belongs to
Rejects(value) == trim(value) = "" \/ isLoading

\* sendMessage up to its first await: the guard on the text and on isLoading
\* of the render the callback belongs to, the user message, and runTimeline up
\* to its first sleep
SendMessage ==
  \E s \in 1..MaxSends, value \in Values :
    /\ sends[s].pc = "idle"
    /\ \A t \in 1..(s - 1) : sends[t].pc # "idle"
    /\ IF Rejects(value)
       THEN /\ sends' = [sends EXCEPT ![s] = [pc |-> "returned", value |-> value,
                                              admitted |-> FALSE, index |-> 0]]
            /\ UNCHANGED updates
       ELSE /\ updates' = SetState(<<[set |-> "messages", arg |-> makeMessage("user", s, 0)],
                                     [set |-> "isLoading", arg |-> TRUE],
                                     [set |-> "initialSteps", arg |-> 0],
                                     [set |-> "runStep", arg |-> 0]>>)
            /\ sends' = [sends EXCEPT ![s] = [pc |-> IF isMounted THEN "sleep" ELSE "returned",
                                              value |-> value, admitted |-> TRUE,
                                              index |-> 0]]
    /\ UNCHANGED <<messages, isLoading, activitySteps, isMounted>>
    /\ UNCHANGED <<mergeLog, builtMap, toolMap, exactLog, exactTable, topMatch, responses, request>>
    /\ UNCHANGED <<loopVars, clarifyVars>>

\* a sleep of one call ends, after the render that the updates before it
\* caused: the next step of the timeline, the assistant message after the
\* last step, or the end of the call
TimerFires ==
  \E s \in 1..MaxSends :
    /\ sends[s].pc \in {"sleep", "settle"}
    /\ updates = <<>> \/ ~isMounted
    /\ IF sends[s].pc = "settle"
       THEN /\ updates' = SetState(<<[set |-> "clearSteps", arg |-> 0],
                                     [set |-> "isLoading", arg |-> FALSE]>>)
            /\ sends' = [sends EXCEPT ![s].pc = "returned"]
       ELSE IF ~isMounted
       THEN /\ sends' = [sends EXCEPT ![s].pc = "returned"]
            /\ UNCHANGED updates
       ELSE IF sends[s].index + 1 < STEP_COUNT
       THEN /\ updates' = SetState(<<[set |-> "runStep", arg |-> sends[s].index + 1]>>)
            /\ sends' = [sends EXCEPT ![s].index = @ + 1]
       ELSE /\ updates' = SetState(<<[set |-> "completeSteps", arg |-> 0],
                                     [set |-> "messages",
                                      arg |-> makeMessage("assistant", s, FIXED_REFERENCES)]>>)
            /\ sends' = [sends EXCEPT ![s].pc = "settle"]
    /\ UNCHANGED <<messages, isLoading, activitySteps, isMounted>>
    /\ UNCHANGED <<mergeLog, builtMap, toolMap, exactLog, exactTable, topMatch, responses, request>>
    /\ UNCHANGED <<loopVars, clarifyVars>>

\* React renders the component with the queued updates applied; the callbacks
\* of this render see the new state
Render ==
  /\ isMounted
  /\ updates # <<>>
  /\ LET state == ApplyUpdates([messages |-> messages, isLoading |-> isLoading,
                                activitySteps |-> activitySteps], updates)
     IN /\ messages' = state.messages
        /\ isLoading' = state.isLoading
        /\ activitySteps' = state.activitySteps
  /\ updates' = <<>>
  /\ UNCHANGED <<isMounted, sends>>
  /\ UNCHANGED <<mergeLog, builtMap, toolMap, exactLog, exactTable, topMatch, responses, request>>
  /\ UNCHANGED <<loopVars, clarifyVars>>

\* the effect's cleanup: the component is unmounted
Unmount ==
  /\ isMounted
  /\ isMounted' = FALSE
  /\ updates' = <<>>
  /\ UNCHANGED <<messages, isLoading, activitySteps, sends>>
  /\ UNCHANGED <<mergeLog, builtMap, toolMap, exactLog, exactTable, topMatch, responses, request>>
  /\ UNCHANGED <<loopVars, clarifyVars>>

NextHook == SendMessage \/ TimerFires \/ Render \/ Unmount

SpecHook == InitMerge /\ [][NextHook]_vars

\* ------------------------------------ request modes and their constraints
\* ids a client or the reranker may name: 0 is the empty string, 3 a company
\* whose details are never found
ClientIds == 0..(NumCompanies + 1)

\* arrays of at most n ids
IdLists(n) == UNION {[1..k -> ClientIds] : k \in 0..n}

\* Array.prototype.filter(Boolean)
RECURSIVE FilterBoolean(_)
FilterBoolean(ids) ==
  IF ids = <<>> THEN <<>>
  ELSE IF Head(ids) = 0 THEN FilterBoolean(Tail(ids))
  ELSE <<Head(ids)>> \o FilterBoolean(Tail(ids))

\* dedupeCompanyIds
dedupeCompanyIds(companyIds) == ArrayFromSet(FilterBoolean(companyIds))

\* inferRequestMode; the three flags are the matches of its three patterns
inferRequestMode(isMoreRequest, isFilterRequest, isSimilarityRequest, hasPreviousCandidates) ==
  IF hasPreviousCandidates /\ isMoreRequest THEN "more"
  ELSE IF hasPreviousCandidates /\ isFilterRequest THEN "filter"
  ELSE IF isSimilarityRequest THEN "similar"
  ELSE "new"

\* the loop of applyReferenceConstraints, from the references not yet visited
RECURSIVE ConstrainFrom(_, _, _, _, _, _)
ConstrainFrom(refs, requestMode, previousCandidateIds, targetResultCount, seen, count) ==
  IF refs = <<>> THEN <<>>
  ELSE LET id == Head(refs)
           previousIdSet == SeqToSet(previousCandidateIds)
           skip == \/ id = 0
                   \/ id \in seen
                   \/ requestMode = "more" /\ id \in previousIdSet
                   \/ /\ requestMode = "filter"
                      /\ Len(previousCandidateIds) > 0
                      /\ id \notin previousIdSet
       IN IF skip
          THEN ConstrainFrom(Tail(refs), requestMode, previousCandidateIds,
                             targetResultCount, seen, count)
          ELSE IF count + 1 >= targetResultCount
          THEN <<id>>
          ELSE <<id>> \o ConstrainFrom(Tail(refs), requestMode, previousCandidateIds,
                                       targetResultCount, seen \cup {id}, count + 1)

\* References cut to the target without reading the request mode.
applyReferenceConstraintsModeless(refs, requestMode, previousCandidateIds, targetResultCount) ==
  ConstrainFrom(refs, "new", previousCandidateIds, targetResultCount, {}, 0)

\* applyReferenceConstraints
applyReferenceConstraints(refs, requestMode, previousCandidateIds, targetResultCount) ==
  ConstrainFrom(refs, requestMode, previousCandidateIds, targetResultCount, {}, 0)

\* rankedCompanyIds mapped to references: ids with no entry in finalCompanyMap drop out
RECURSIVE unconstrainedReferences(_, _)
unconstrainedReferences(rankedCompanyIds, finalCompanyMap) ==
  IF rankedCompanyIds = <<>> THEN <<>>
  ELSE IF Head(rankedCompanyIds) \in finalCompanyMap
  THEN <<Head(rankedCompanyIds)>> \o unconstrainedReferences(Tail(rankedCompanyIds), finalCompanyMap)
  ELSE unconstrainedReferences(Tail(rankedCompanyIds), finalCompanyMap)

\* runAgenticSearch reads the message and the client context
ReceiveRequest ==
  /\ request.stage = "none"
  /\ \E clientIds \in IdLists(MaxClientIds), targetResultCount \in {1, 2},
        isMoreRequest \in BOOLEAN, isFilterRequest \in BOOLEAN,
        isSimilarityRequest \in BOOLEAN :
       LET previousCandidateIds == dedupeCompanyIds(clientIds) IN
       request' = [request EXCEPT
                     !.stage = "loop",
                     !.clientIds = clientIds,
                     !.previousCandidateIds = previousCandidateIds,
                     !.requestMode = inferRequestMode(isMoreRequest, isFilterRequest,
                                                      isSimilarityRequest,
                                                      Len(previousCandidateIds) > 0),
                     !.targetResultCount = targetResultCount]
  /\ UNCHANGED <<mergeLog, builtMap, toolMap, exactLog, exactTable, topMatch, responses, hookVars>>
  /\ UNCHANGED <<loopVars, clarifyVars>>

\* onStepFinish stores the pending entry and the function returns null
SuspendRequest ==
  /\ request.stage = "loop"
  /\ request' = [request EXCEPT
                   !.stage = "pending",
                   !.pending = [requestMode |-> request.requestMode,
                                targetResultCount |-> request.targetResultCount,
                                previousCandidateIds |-> request.previousCandidateIds]]
  /\ UNCHANGED <<mergeLog, builtMap, toolMap, exactLog, exactTable, topMatch, responses, hookVars>>
  /\ UNCHANGED <<loopVars, clarifyVars>>

\* Phase 3 of runAgenticSearch: the references of the final answer
BuildReferences ==
  /\ request.stage = "loop"
  /\ \E rankedCompanyIds \in IdLists(MaxRankedIds), finalCompanyMap \in SUBSET Companies :
       request' = [request EXCEPT
                     !.stage = "answered",
                     !.references =
                        applyReferenceConstraints(
                          unconstrainedReferences(rankedCompanyIds, finalCompanyMap),
                          request.requestMode, request.previousCandidateIds,
                          request.targetResultCount)]
  /\ UNCHANGED <<mergeLog, builtMap, toolMap, exactLog, exactTable, topMatch, responses, hookVars>>
  /\ UNCHANGED <<loopVars, clarifyVars>>

\* the same phase in resumeAgentWithClarification, on the pending entry
ResumeBuildReferences ==
  /\ request.stage = "pending"
  /\ \E rankedCompanyIds \in IdLists(MaxRankedIds), finalCompanyMap \in SUBSET Companies :
       request' = [request EXCEPT
                     !.stage = "resumed",
                     !.references =
                        applyReferenceConstraints(
                          unconstrainedReferences(rankedCompanyIds, finalCompanyMap),
                          request.pending.requestMode, request.pending.previousCandidateIds,
                          request.pending.targetResultCount)]
  /\ UNCHANGED <<mergeLog, builtMap, toolMap, exactLog, exactTable, topMatch, responses, hookVars>>
  /\ UNCHANGED <<loopVars, clarifyVars>>

NextConstraints ==
  \/ ReceiveRequest
  \/ SuspendRequest
  \/ BuildReferences
  \/ ResumeBuildReferences

SpecConstraints == InitMerge /\ [][NextConstraints]_vars

\* ----------------------------- tool-calling orchestrator: suspend / resume
\* A finalize_search that does not ask for fetched company details.
RunToolFinalizesUnfetched(st, tool, found) ==
  CASE tool = "search" ->
         [st EXCEPT !.toolCallCount = @ + 1, !.hasCandidates = @ \/ found]
    [] tool = "get_company_details" ->
         [st EXCEPT !.toolCallCount = @ + 1, !.companyDetailsFetched = @ \/ found]
    [] tool = "clarify_with_user" ->
         IF st.clarificationResponse
         THEN [st EXCEPT !.clarificationResponse = FALSE,
                         !.clarificationPending = FALSE,
                         !.clarificationSatisfied = TRUE]
         ELSE [st EXCEPT !.clarificationPending = TRUE]
    [] OTHER ->
         IF /\ (~st.requireClarificationBeforeFinalize \/ st.clarificationSatisfied)
            /\ found
         THEN [st EXCEPT !.preliminaryResults = TRUE]
         ELSE st

\* execute of one tool on the state object; found: the call returned rows
\* (for finalize_search: its remaining checks accept the results)
RunTool(st, tool, found) ==
  CASE tool = "search" ->
         [st EXCEPT !.toolCallCount = @ + 1, !.hasCandidates = @ \/ found]
    [] tool = "get_company_details" ->
         [st EXCEPT !.toolCallCount = @ + 1, !.companyDetailsFetched = @ \/ found]
    [] tool = "clarify_with_user" ->
         IF st.clarificationResponse
         THEN [st EXCEPT !.clarificationResponse = FALSE,
                         !.clarificationPending = FALSE,
                         !.clarificationSatisfied = TRUE]
         ELSE [st EXCEPT !.clarificationPending = TRUE]
    [] OTHER ->
         IF /\ st.companyDetailsFetched
            /\ (~st.requireClarificationBeforeFinalize \/ st.clarificationSatisfied)
            /\ found
         THEN [st EXCEPT !.preliminaryResults = TRUE]
         ELSE st

RECURSIVE RunTools(_, _, _)
RunTools(st, tools, found) ==
  IF tools = <<>> THEN st
  ELSE RunTools(RunTool(st, Head(tools), found), Tail(tools), found)

\* what the caller receives; the locals of the invocation are gone
Returned(call, result, iterationCount, toolCallCount) ==
  [IdleCall EXCEPT !.kind = call.kind, !.status = "returned",
                   !.session = call.session, !.run = call.run,
                   !.result = result,
                   !.iterationCount = iterationCount,
                   !.toolCallCount = toolCallCount]

\* buildFallbackResponse: a payload with a telemetry of its own
FallbackResponse(call) == Returned(call, "fallback", 0, 0)

\* let stepCounter = pending.state.toolCallCount
StepCounterFromZero(state) == 0

StepCounterAtResume(state) == state.toolCallCount

\* pendingClarifications.set(sessionId, {state, runId, startedAtMs, ...})
SetPending(s, run) ==
  /\ pendingClarifications' = [pendingClarifications EXCEPT ![s] = run]
  /\ expiredSessions' = expiredSessions \ {s}

\* the store as it is
KeepPending(s) == UNCHANGED <<pendingClarifications, expiredSessions>>

\* a resume that reads the entry and leaves it in the store
DeletePendingSkipped(s) == UNCHANGED <<pendingClarifications, expiredSessions>>

\* pendingClarifications.delete(sessionId)
DeletePending(s) ==
  /\ pendingClarifications' = [pendingClarifications EXCEPT ![s] = 0]
  /\ expiredSessions' = expiredSessions \ {s}

\* the event POST enqueues when the function it awaits has returned
RouteEventsWithoutNullTest(kind, result) == <<"final_answer">>

RouteEvents(kind, result) ==
  CASE result = "null" /\ kind = "search" -> <<"clarification_request">>
    [] result = "null" -> <<"error">>
    [] OTHER -> <<"final_answer">>

\* the ReadableStream of a new invocation
Open(c, events) ==
  streams' = IF agentWorld.route THEN [streams EXCEPT ![c] = events] ELSE streams

\* controller.enqueue, through the callbacks of the route or by the route itself
Emit(c, events) ==
  streams' = IF agentWorld.route THEN [streams EXCEPT ![c] = @ \o events] ELSE streams

\* a slot a new invocation can take: never used, or its response is out
Free(c) == calls[c].status # "loop"

\* A start that tests the message after it has built the state of the run.
StartAgentRunTestsLate(c, s) ==
  /\ Free(c)
  /\ runs < agentWorld.runLimit
  /\ runs' = runs + 1
  /\ \E empty \in BOOLEAN, requiresUpfrontClarification \in BOOLEAN :
       /\ agentState' = [agentState EXCEPT ![runs + 1] =
                           InitialState(requiresUpfrontClarification)]
       /\ IF empty
          THEN /\ calls' = [calls EXCEPT ![c] =
                    FallbackResponse([IdleCall EXCEPT !.kind = "search", !.session = s,
                                                      !.run = runs + 1])]
               /\ Open(c, RouteEvents("search", "fallback"))
          ELSE /\ calls' = [calls EXCEPT ![c] =
                    [IdleCall EXCEPT !.kind = "search", !.status = "loop",
                                     !.session = s, !.run = runs + 1,
                                     !.stepLimit = MAX_STEPS]]
               /\ Open(c, <<"activity">>)
  /\ UNCHANGED <<pendingClarifications, aged, expiredSessions, loopVars, mergeVars, agentWorld>>

\* runAgenticSearch up to the agent loop
StartAgentRun(c, s) ==
  /\ Free(c)
  /\ \E empty \in BOOLEAN, requiresUpfrontClarification \in BOOLEAN :
       IF empty
       THEN /\ calls' = [calls EXCEPT ![c] =
                 FallbackResponse([IdleCall EXCEPT !.kind = "search", !.session = s])]
            /\ Open(c, RouteEvents("search", "fallback"))
            /\ UNCHANGED <<runs, agentState>>
       ELSE /\ runs < agentWorld.runLimit
            /\ runs' = runs + 1
            /\ agentState' = [agentState EXCEPT ![runs + 1] =
                                InitialState(requiresUpfrontClarification)]
            /\ calls' = [calls EXCEPT ![c] =
                 [IdleCall EXCEPT !.kind = "search", !.status = "loop",
                                  !.session = s, !.run = runs + 1,
                                  !.stepLimit = MAX_STEPS]]
            /\ Open(c, <<"activity">>)
  /\ UNCHANGED <<pendingClarifications, aged, expiredSessions, loopVars, mergeVars, agentWorld>>

\* stopWhen: stepCountIs(stepLimit), tested after every step that calls tools
MayStep(call) ==
  /\ call.status = "loop"
  /\ call.steps # call.stepLimit
  /\ call.steps < agentWorld.loopSteps

\* one step of generateText: the tools execute, then onStepFinish
AgentStep(c) ==
  LET call == calls[c] IN
  /\ MayStep(call)
  /\ \E tools \in agentWorld.toolCallLists, found \in BOOLEAN, timedOut \in BOOLEAN :
       LET st == RunTools(agentState[call.run], tools, found)
           asked == \E i \in 1..Len(tools) : tools[i] = "clarify_with_user"
           after == [call EXCEPT !.steps = @ + 1,
                                 !.clarificationRequested = @ \/ asked]
       IN
       /\ st.toolCallCount <= agentWorld.countedCalls
       /\ ((call.kind = "search" \/ agentWorld.resumeClock = "startedAtMs")
             /\ call.run \in aged) => timedOut
       /\ agentState' = [agentState EXCEPT ![call.run] = st]
       /\ IF timedOut
          THEN /\ calls' = [calls EXCEPT ![c] = FallbackResponse(after)]
               /\ KeepPending(call.session)
               /\ Emit(c, RouteEvents(call.kind, "fallback"))
          ELSE /\ calls' = [calls EXCEPT ![c] =
                              [after EXCEPT !.stepCounter = @ + Len(tools)]]
               /\ Emit(c, [i \in 1..Len(tools) |-> "activity"])
               /\ IF asked /\ st.clarificationPending
                  THEN SetPending(call.session, call.run)
                  ELSE KeepPending(call.session)
  /\ UNCHANGED <<runs, aged, loopVars, mergeVars, agentWorld>>

\* the events of reranking and summarising: "Reranking results" running and
\* completed, then the first characters of the summary
AnswerProgress == <<"activity", "activity", "partial_text">>

\* generateText returns: suspend, answer or fall back
AgentLoopEnds(c) ==
  LET call == calls[c]
      st == agentState[call.run]
  IN
  /\ call.status = "loop"
  /\ IF call.clarificationRequested /\ st.clarificationPending
     THEN /\ calls' = [calls EXCEPT ![c] = Returned(call, "null", 0, 0)]
          /\ Emit(c, RouteEvents(call.kind, "null"))
          /\ IF call.kind = "resume" /\ pendingClarifications[call.session] = 0
             THEN SetPending(call.session, call.run)
             ELSE KeepPending(call.session)
     ELSE /\ KeepPending(call.session)
          /\ IF st.preliminaryResults \/ (st.hasCandidates /\ st.companyDetailsFetched)
             THEN \E done \in 0..Len(AnswerProgress) :
                    LET ok == done = Len(AnswerProgress) IN
                    /\ calls' = [calls EXCEPT ![c] =
                         IF ok
                         THEN Returned(call, "answer",
                                       IF call.kind = "resume" THEN 2 ELSE 1,
                                       st.toolCallCount)
                         ELSE FallbackResponse(call)]
                    /\ Emit(c, SubSeq(AnswerProgress, 1, done)
                                 \o RouteEvents(call.kind, IF ok THEN "answer" ELSE "fallback"))
             ELSE /\ calls' = [calls EXCEPT ![c] = FallbackResponse(call)]
                  /\ Emit(c, RouteEvents(call.kind, "fallback"))
  /\ UNCHANGED <<runs, agentState, aged, loopVars, mergeVars, agentWorld>>

\* resumeAgentWithClarification up to the agent loop
ResumeAgentWithClarification(c, s) ==
  LET run == pendingClarifications[s] IN
  /\ Free(c)
  /\ IF run = 0
     THEN /\ calls' = [calls EXCEPT ![c] =
                 FallbackResponse([IdleCall EXCEPT !.kind = "resume", !.session = s])]
          /\ Open(c, RouteEvents("resume", "fallback"))
          /\ UNCHANGED agentState
          /\ KeepPending(s)
     ELSE /\ DeletePending(s)
          /\ agentState' = [agentState EXCEPT ![run] =
               [@ EXCEPT !.clarificationResponse = TRUE,
                         !.clarificationPending = FALSE,
                         !.clarificationSatisfied = TRUE]]
          /\ calls' = [calls EXCEPT ![c] =
               [IdleCall EXCEPT !.kind = "resume", !.status = "loop",
                                !.session = s, !.run = run,
                                !.stepCounter = StepCounterAtResume(agentState[run]),
                                !.stepLimit = MAX_STEPS - agentState[run].toolCallCount]]
          /\ Open(c, <<"activity">>)
  /\ UNCHANGED <<runs, aged, loopVars, mergeVars, agentWorld>>

\* CLARIFICATION_TIMEOUT_MS pass since the run's startedAtMs
ClarificationTimeoutPasses(r) ==
  /\ r <= runs
  /\ r \notin aged
  /\ aged' = aged \cup {r}
  /\ UNCHANGED <<calls, runs, agentState, pendingClarifications, expiredSessions,
                 loopVars, mergeVars, agentWorld, streams>>

\* CLARIFICATION_TIMEOUT_MS pass since the entry of the session was stored;
\* the run started before that
ClarificationExpires(s) ==
  /\ pendingClarifications[s] \in aged
  /\ s \notin expiredSessions
  /\ expiredSessions' = expiredSessions \cup {s}
  /\ UNCHANGED <<calls, runs, agentState, pendingClarifications, aged,
                 loopVars, mergeVars, agentWorld, streams>>

\* a sweep that finds nothing old enough
NeverSwept(run) == FALSE

\* now - pending.startedAtMs > CLARIFICATION_TIMEOUT_MS
Swept(run) == run \in aged

\* the sweep setInterval runs every minute
cleanupExpiredClarifications ==
  /\ \E s \in Sessions : Swept(pendingClarifications[s])
  /\ pendingClarifications' =
       [s \in Sessions |->
          IF Swept(pendingClarifications[s]) THEN 0 ELSE pendingClarifications[s]]
  /\ expiredSessions' = {s \in expiredSessions : ~Swept(pendingClarifications[s])}
  /\ UNCHANGED <<calls, runs, agentState, aged, loopVars, mergeVars, agentWorld, streams>>

InitClarify ==
  /\ InitRequest({}, {}, {}, {}, {0}, {<<>>}, {FALSE}, {0}, {TRUE}, AgentWorld(MaxRuns, MaxLoopSteps, ToolCallLists, FALSE))
  /\ similarityIntent = FALSE

NextClarify ==
  \/ \E c \in CallIds, s \in Sessions : StartAgentRun(c, s)
  \/ \E c \in CallIds : AgentStep(c)
  \/ \E c \in CallIds : AgentLoopEnds(c)
  \/ \E c \in CallIds, s \in Sessions : ResumeAgentWithClarification(c, s)
  \/ \E r \in RunIds : ClarificationTimeoutPasses(r)
  \/ \E s \in Sessions : ClarificationExpires(s)
  \/ cleanupExpiredClarifications

SpecClarify == InitClarify /\ [][NextClarify]_vars

\* two requests of the process, with a model that searches or asks
InitStore ==
  /\ InitRequest({}, {}, {}, {}, {0}, {<<>>},
                 {FALSE}, {0}, {TRUE}, AgentWorld(MaxStoreRuns, MaxStoreLoopSteps, StoreToolCallLists, FALSE))
  /\ similarityIntent = FALSE

SpecStore == InitStore /\ [][NextClarify]_vars

\* the two functions called by POST /api/chat, which streams their events
InitRoute ==
  /\ InitRequest({}, {}, {}, {}, {0}, {<<>>},
                 {FALSE}, {0}, {TRUE}, AgentWorld(MaxRuns, MaxLoopSteps, ToolCallLists, TRUE))
  /\ similarityIntent = FALSE

SpecRoute == InitRoute /\ [][NextClarify]_vars

\* the earlier resumeAgentWithClarification, whose onStepFinish measures the
\* runtime from pending.startedAtMs
InitEarlier ==
  /\ InitRequest({}, {}, {}, {}, {0}, {<<>>}, {FALSE}, {0}, {TRUE},
                 [AgentWorld(MaxRuns, MaxLoopSteps, ToolCallLists, FALSE)
                    EXCEPT !.resumeClock = "startedAtMs"])
  /\ similarityIntent = FALSE

SpecEarlier == InitEarlier /\ [][NextClarify]_vars

\* a model that asks, or issues several searches in parallel in one step
LimitToolCallLists == {[i \in 1..BatchSize |-> "search"], <<"clarify_with_user">>}

\* one request whose run may make more than MAX_STEPS counted tool calls
InitLimit ==
  /\ InitRequest({}, {}, {}, {}, {0}, {<<>>}, {FALSE}, {0}, {TRUE},
                 [AgentWorld(MaxRuns, MaxLimitSteps, LimitToolCallLists, FALSE)
                    EXCEPT !.countedCalls = MaxLimitCalls])
  /\ similarityIntent = FALSE

SpecLimit == InitLimit /\ [][NextClarify]_vars

\* the clock keeps running and the timer of the sweep keeps firing
FairSpecClarify ==
  /\ InitClarify
  /\ [][NextClarify]_vars
  /\ WF_vars(cleanupExpiredClarifications)
  /\ \A r \in RunIds : WF_vars(ClarificationTimeoutPasses(r))

\* ---------------------------------------------------------- merge claims
ScoreFields ==
  {"semanticScore", "keywordScore", "nicheScore", "exactMatchScore", "combinedScore"}

MaxOf(S) == CHOOSE x \in S : \A y \in S : y <= x

\* what the claims compare of an aggregate: its five scores and the sets of
\* its matched fields and matched terms
AggregateView(c) ==
  [scores |-> [f \in ScoreFields |-> c[f]],
   fields |-> SeqToSet(c.matchedFields),
   terms |-> SeqToSet(c.matchedTerms)]

\* the view max-of-scores and union-of-evidence give for the candidates K
ExpectedView(K) ==
  [scores |-> [f \in ScoreFields |-> MaxOf({k[f] : k \in K})],
   fields |-> UNION {SeqToSet(k.matchedFields) : k \in K},
   terms |-> UNION {SeqToSet(k.matchedTerms) : k \in K}]

\* the arrival orders of n results
Orders(n) == {p \in [1..n -> 1..n] : \A i, j \in 1..n : p[i] = p[j] => i = j}

Entry(map, id) == map[IndexOfId(map, id)]

LoggedFor(id) == {i \in 1..Len(mergeLog) : mergeLog[i].companyId = id}

\* C6: for every entity id that retrieval results contributed to, each score
\* field of the aggregate is the maximum of that field over the contributing
\* results, its matched-field and matched-term sets are their unions, and
\* merging the same results in any other order gives the same scores and sets
\* -- for buildCandidateMap and for mergeCandidates alike.
C6_MergeIsMaxUnionAnyOrder ==
  \A id \in Companies :
    LoggedFor(id) # {} =>
      /\ AggregateView(Entry(builtMap, id)) =
           ExpectedView({CandidateOf(mergeLog[i]) : i \in LoggedFor(id)})
      /\ AggregateView(Entry(toolMap, id)) =
           ExpectedView({ToolCandidateOf(mergeLog[i]) : i \in LoggedFor(id)})
      /\ \A p \in Orders(Len(mergeLog)) :
           LET arrived == [i \in 1..Len(mergeLog) |-> mergeLog[p[i]]]
           IN /\ AggregateView(Entry(buildCandidateMap(<<>>, MapSeq(arrived, CandidateOf)), id))
                   = AggregateView(Entry(builtMap, id))
              /\ AggregateView(Entry(mergeCandidates(<<>>, MapSeq(arrived, ToolCandidateOf)), id))
                   = AggregateView(Entry(toolMap, id))

\* three results for one entity: a weak lexical hit, a strong hybrid hit, and
\* a weak taxonomy hit after it
C6_Witness ==
  /\ Len(mergeLog) = 3
  /\ \A i \in 1..3 : mergeLog[i].companyId = 1
  /\ mergeLog[1].strategy = "keyword" /\ mergeLog[1].score = 40
  /\ mergeLog[2].strategy = "hybrid" /\ mergeLog[2].score = 70
  /\ mergeLog[3].strategy = "taxonomy" /\ mergeLog[3].score = 40
  /\ Entry(builtMap, 1).combinedScore = 70
  /\ Len(Entry(builtMap, 1).matchedFields) = 4

\* C7: merging a further retrieval result never lowers the combined score of
\* any entity already in the aggregate.
C7_CombinedScoreNeverDecreases ==
  [][\A i \in 1..Len(builtMap) :
       /\ i <= Len(builtMap')
       /\ builtMap'[i].companyId = builtMap[i].companyId
       /\ builtMap'[i].combinedScore >= builtMap[i].combinedScore]_vars

\* a strong result is already merged and a weaker one for the same entity
\* has landed after it
C7_Witness ==
  /\ Len(mergeLog) >= 2
  /\ mergeLog[1].companyId = mergeLog[2].companyId
  /\ mergeLog[1].score = 70
  /\ mergeLog[2].score = 40
  /\ Entry(builtMap, mergeLog[1].companyId).combinedScore = 70

\* ----------------------------------------------------------- loop claims
InLoop ==
  pc \in {"loop", "plan", "embed", "hybrid", "keyword", "taxonomy",
          "hydrate", "rerank", "critic", "policy"}

\* C1: once the tool-call count has reached 40 or the runtime ceiling has
\* passed, the loop makes no further retrieval or completion call (the count
\* stays where it is) and leaves only with end reason guardrail_hit, or by a
\* failure of a lookup that is not counted.
C1_NoCallPastCeiling ==
  [][(InLoop /\ (toolCalls >= 40 \/ runtimeExceeded)) =>
       /\ toolCalls' = toolCalls
       /\ \/ InLoop'
          \/ pc' = "finalize" /\ endReason' = "guardrail_hit"
          \/ pc' = "done" /\ outcome' = "threw"]_vars

\* C2: the iteration counter moves only by +1, a pass starts only with that
\* step, the counter never passes 10, and the planner -- the first call of
\* every plan/retrieve/rerank/critic cycle -- has run at most once per pass,
\* hence at most 10 times.
C2_IterationsCountedAndBounded ==
  [][/\ iteration' \in {iteration, iteration + 1}
     /\ (pc # "plan" /\ pc' = "plan") => iteration' = iteration + 1
     /\ iteration' <= 10
     /\ plannerCalls' <= iteration']_vars

\* the tenth cycle is under way
C2_Witness == iteration = 10 /\ plannerCalls = 10 /\ pc = "critic"

\* the ids the pass ranked first, as the policy compares them
TopIdsNow == Take(IdsOf(ranked), 5)

IdenticalTopFive == priorTopIds # <<>> /\ TopIdsNow # <<>> /\ Take(priorTopIds, 5) = TopIdsNow

StopAtConfidence == critic = "stop" /\ reranked >= 74

\* the step that applies the stop/continue policy
PolicyStep == pc = "policy" /\ pc' # "policy"

\* every pass so far made its five calls (plan, embed, one lexical search,
\* rerank, critic), so the previous pass left the ranking in priorTopIds
PreviousPassRanked == iteration >= 2 /\ toolCalls = exactNameInputs + 5 * iteration

\* C3 as stated: the second of two consecutive passes with the same top-5 id
\* sequence ends the loop with end reason converged.
C3_IdenticalTopFiveEndsConverged ==
  [][(PolicyStep /\ PreviousPassRanked /\ IdenticalTopFive) =>
       (pc' = "finalize" /\ endReason' = "converged")]_vars

\* C3, amended: when the critic of a pass has returned, the loop ends with
\* converged exactly when the pass's top-5 id sequence equals the previous one
\* and the confidence rule does not apply; an identical top-5 always ends the
\* loop at that pass (with confidence_met when the confidence rule applies),
\* so no further pass is started.
C3_IdenticalTopFiveEndsLoop ==
  [][PolicyStep =>
       /\ (pc' = "finalize" /\ endReason' = "converged")
            <=> (IdenticalTopFive /\ ~StopAtConfidence)
       /\ IdenticalTopFive =>
            /\ pc' = "finalize"
            /\ endReason' = IF StopAtConfidence THEN "confidence_met" ELSE "converged"]_vars

\* two full passes (1 lookup + 2 x 5 calls), the second ranked both companies
\* as the first did, and the loop has ended converged
C3_Witness ==
  /\ pc = "finalize"
  /\ endReason = "converged"
  /\ iteration = 2
  /\ toolCalls = 11
  /\ Len(priorTopIds) = 2
  /\ IdsOf(finalCandidates) = priorTopIds

\* C4: when the critic has returned, the loop ends with confidence_met exactly
\* when the decision is stop and the reranker confidence is at least 0.74,
\* convergence or not; a stop below 0.74 without convergence goes on to the
\* next pass.
C4_ConfidenceMetRule ==
  [][PolicyStep =>
       /\ (pc' = "finalize" /\ endReason' = "confidence_met") <=> StopAtConfidence
       /\ (critic = "stop" /\ reranked < 74 /\ ~IdenticalTopFive) => pc' = "loop"]_vars

\* the critic said stop at confidence 0.74 on a pass that also converged
C4_Witness ==
  /\ pc = "policy"
  /\ critic = "stop"
  /\ reranked = 74
  /\ IdenticalTopFive
  /\ iteration >= 2

EndReasons == {"confidence_met", "converged", "exact_match", "guardrail_hit", "error"}

\* C5: every request ends, with one of the five end reasons on record; the
\* loop is left at its guard -- iterations, tool calls or time exhausted --
\* only with end reason guardrail_hit, and a request that returns records the
\* end reason the loop ended with.
C5_TerminatesWithEndReason ==
  /\ <>(pc = "done")
  /\ [](pc = "done" =>
          /\ telemetry.endReason \in EndReasons
          /\ outcome = "returned" => telemetry.endReason = endReason
          /\ outcome = "threw" => telemetry.endReason = "error")
  /\ [][(pc = "loop" /\ pc' = "finalize") => endReason' = "guardrail_hit"]_vars

\* ten passes ran without a stop or convergence and below the call budget
C5_Witness ==
  /\ pc = "done"
  /\ outcome = "returned"
  /\ telemetry.endReason = "guardrail_hit"
  /\ telemetry.iterationCount = 10
  /\ telemetry.toolCallCount < 40
  /\ plannerCalls = 10

\* the anchor resolver's best exact-name score, 0 without a match
BestExactScore ==
  IF exactBestByCompany = <<>> THEN 0
  ELSE MaxOf({exactBestByCompany[i].nameScore : i \in 1..Len(exactBestByCompany)})

BestExactId == exactBestByCompany[TopExactIndex(exactBestByCompany)].companyId

ExactShortCircuit == pc # "exact" /\ BestExactScore >= 95 /\ ~similarityIntent

AnchorActive == pc # "exact" /\ BestExactScore >= 80 /\ similarityIntent

\* C9: with similarity intent and a best exact-name score of at least 0.8, the
\* matched entity is in no list the request hands on after filtering: not in
\* the candidates kept for ranking, not in the final candidates cut to the
\* target count, not in the references.
C9_AnchorNeverReturned ==
  AnchorActive =>
    /\ BestExactId \notin SeqToSet(IdsOf(references))
    /\ BestExactId \notin SeqToSet(IdsOf(finalTop))
    /\ BestExactId \notin SeqToSet(IdsOf(ranked))

\* an anchor matched at 0.8, and the request returned another company
C9_Witness ==
  /\ AnchorActive
  /\ BestExactScore = 80
  /\ anchorCompany = BestExactId
  /\ pc = "done"
  /\ outcome = "returned"
  /\ references # <<>>

\* ---------------------------------------------------- clarification claims
ResumeStarts(c) ==
  calls[c].status # "loop" /\ calls'[c].status = "loop" /\ calls'[c].kind = "resume"

ResumeCalled(c, s) ==
  /\ calls[c].status # "loop"
  /\ calls'[c] # calls[c]
  /\ calls'[c].kind = "resume"
  /\ calls'[c].session = s

\* C11: a resume call whose session has no pending entry, or whose entry was
\* stored longer ago than the TTL, returns the session-expired response and
\* resumes nothing: no state object is touched and no loop starts.
C11_ExpiredResumeGetsSessionExpired ==
  [][\A c \in CallIds, s \in Sessions :
       (ResumeCalled(c, s) /\ (pendingClarifications[s] = 0 \/ s \in expiredSessions)) =>
         /\ calls'[c].status = "returned"
         /\ calls'[c].result = "fallback"
         /\ agentState' = agentState]_vars

\* C12: the stored session is consumed by the resume that reads it: a resume
\* call leaves no entry for its session id, it starts a loop only on the run
\* the entry held, a call that finds no entry gets the session-expired
\* response, no other invocation changes in that step, and an entry enters the
\* store only by a step of a loop of that session and run.
C12_SessionConsumedOnce ==
  [][/\ \A c \in CallIds, s \in Sessions :
          ResumeCalled(c, s) =>
            /\ pendingClarifications'[s] = 0
            /\ calls'[c].status = "loop" =>
                 /\ pendingClarifications[s] # 0
                 /\ calls'[c].run = pendingClarifications[s]
            /\ pendingClarifications[s] = 0 =>
                 /\ calls'[c].status = "returned"
                 /\ calls'[c].result = "fallback"
            /\ \A c2 \in CallIds \ {c} : calls'[c2] = calls[c2]
     /\ \A s \in Sessions :
          (pendingClarifications'[s] # 0 /\ pendingClarifications'[s] # pendingClarifications[s]) =>
            \E c \in CallIds :
              /\ calls[c].status = "loop"
              /\ calls[c].session = s
              /\ calls[c].run = pendingClarifications'[s]
              /\ calls'[c] # calls[c]
    ]_vars

\* two resume calls for one session: one holds the stored run and has the
\* selection still to read, the other was told the session expired
C12_Witness ==
  \E c1, c2 \in CallIds :
    /\ calls[c1].kind = "resume"
    /\ calls[c1].status = "loop"
    /\ agentState[calls[c1].run].clarificationResponse
    /\ agentState[calls[c1].run].toolCallCount >= 1
    /\ calls[c2].kind = "resume"
    /\ calls[c2].result = "fallback"
    /\ calls[c2].session = calls[c1].session
    /\ pendingClarifications[calls[c1].session] = 0

\* C13: an entry of the store does not stay for ever: unless a resume takes
\* it first, the sweep removes it once the timeout has passed.
C13_PendingSessionEventuallyRemoved ==
  \A s \in Sessions : (pendingClarifications[s] # 0) ~> (pendingClarifications[s] = 0)

\* a search suspended for a clarification nobody answered (the state still
\* waits for it), and its entry is gone from the store
C13_Witness ==
  \E c \in CallIds :
    /\ calls[c].kind = "search"
    /\ calls[c].result = "null"
    /\ calls[c].run \in aged
    /\ agentState[calls[c].run].clarificationPending
    /\ ~agentState[calls[c].run].clarificationSatisfied
    /\ pendingClarifications[calls[c].session] = 0

\* an invocation is inside the agent loop on the state object of the run
LoopRunning(run) ==
  \E c \in CallIds : calls[c].status = "loop" /\ calls[c].run = run

\* C14: the pending session of a request that is suspended and not resumed
\* is never overwritten by the suspension of another request; it leaves the
\* store only when it is resumed or when the sweep finds it expired
C14_SuspendKeepsOtherPendingSessions ==
  [][\A s \in Sessions :
       LET run == pendingClarifications[s] IN
       (run # 0 /\ ~LoopRunning(run))
         => \/ pendingClarifications'[s] = run
            \/ /\ pendingClarifications'[s] = 0
               /\ \/ \E c \in CallIds : ResumeCalled(c, s)
                  \/ run \in aged]_vars

\* C15: a step or the end of a resumed loop never stores a pending session,
\* never leaves a clarification pending on the state and never returns null
C15_ResumedLoopNeverSuspends ==
  [][\A c \in CallIds :
       (calls[c].kind = "resume" /\ calls[c].status = "loop" /\ calls'[c] # calls[c])
         => /\ pendingClarifications' = pendingClarifications
            /\ ~agentState'[calls[c].run].clarificationPending
            /\ calls'[c].result # "null"]_vars

\* --------------------------------------------------------- stream claims
ProgressEvents == {"activity", "partial_text", "clarification_request"}
TerminalEvents == {"final_answer", "error"}

\* progress events only
NoTerminalEvent(stream) ==
  \A i \in 1..Len(stream) : stream[i] \in ProgressEvents

\* progress events, then one terminal event, then nothing
OneTerminalEventLast(stream) ==
  /\ Len(stream) >= 1
  /\ stream[Len(stream)] \in TerminalEvents
  /\ NoTerminalEvent(SubSeq(stream, 1, Len(stream) - 1))

\* progress events without a clarification request, then the clarification
\* request, then nothing
ClarificationRequestLast(stream) ==
  /\ Len(stream) >= 1
  /\ stream[Len(stream)] = "clarification_request"
  /\ \A i \in 1..(Len(stream) - 1) : stream[i] \in {"activity", "partial_text"}

Suspended(call) ==
  call.status = "returned" /\ call.kind = "search" /\ call.result = "null"

StageAfter(stage) ==
  CASE stage = "plan" -> "embed"
    [] stage = "rerank" -> "critic"
    [] OTHER -> "policy"

\* C17: a planner, reranker or critic call is made once and either succeeds,
\* and the pass goes on, or fails, and then the request throws at once, the
\* run row records end reason "error" with no final candidates, no answer is
\* built, and nothing further happens in the request
C17_CompletionFailureAborts ==
  [][/\ outcome = "running"
     /\ (pc \in {"plan", "rerank", "critic"} /\ pc' # pc)
          => /\ toolCalls' = toolCalls + 1
             /\ \/ pc' = StageAfter(pc) /\ outcome' = "running"
                \/ /\ pc' = "done"
                   /\ outcome' = "threw"
                   /\ telemetry' = finalizeRun(0, "error", iteration, toolCalls + 1)
                   /\ references' = <<>> /\ finalTop' = <<>>]_vars

\* a completion call of a later pass has failed: an earlier pass left its
\* ranking and its answer from the reranker, and the request threw without an
\* answer
C17_Witness ==
  /\ outcome = "threw"
  /\ iteration >= 2
  /\ ranked # <<>>
  /\ reranked >= 0
  /\ critic = "none"
  /\ telemetry.endReason = "error"
  /\ references = <<>>

\* the stage a retrieval call leads to, whatever its answer
StageAfterRetrieval ==
  CASE pc = "exact" -> "exact"
    [] pc = "hybrid" -> "keyword"
    [] pc = "keyword" -> QueryLoopPc(queryIndex + 1, queries, toolCalls + 1)
    [] OTHER -> "hydrate"

\* C18: an exact-name lookup of the anchor resolver and a hybrid, lexical or
\* tag-filter call of a pass never end the request, whether they fail or
\* not: the call is counted, the run row is left alone and the request stands
\* at the next call of the step
C18_RetrievalFailureNeverAborts ==
  [][(\/ pc = "exact" /\ exactIndex' # exactIndex
      \/ pc \in {"hybrid", "keyword", "taxonomy"} /\ pc' # pc)
       => /\ toolCalls' = toolCalls + 1
          /\ outcome' = "running"
          /\ telemetry' = telemetry
          /\ pc' = StageAfterRetrieval]_vars

\* every retrieval call of the resolver and of the first pass was made and
\* failed, and the loop is in its second pass
C18_Witness ==
  /\ outcome = "running"
  /\ iteration = 2
  /\ pc = "plan"
  /\ exactBestByCompany = <<>>
  /\ candidateMap = <<>>
  /\ toolCalls = RetrievalNames + 2 + 2 * RetrievalQueries + 1

\* C19: the embedding request of a pass never ends the request, whether it
\* fails or not: the request stands at the first retrieval call of the pass
C19_EmbeddingFailureNeverAborts ==
  [][(pc = "embed" /\ pc' # pc)
       => /\ outcome' = "running"
          /\ telemetry' = telemetry
          /\ pc' = QueryLoopPc(0, queries, toolCalls + 1)]_vars

\* what the caller of runAgenticSearch can see of the request
answerVars == <<pc, outcome, endReason, iteration, toolCalls, finalCandidates,
                finalTop, finalCompanyIds, references>>

\* C20: when the request ends and its write to search_runs has failed (the
\* table is as it was), the same end, with the same answer or the same error,
\* is a step the request takes when the write succeeds
C20_TelemetryWriteFailureKeepsOutcome ==
  [][(pc' = "done" /\ telemetry' = telemetry)
       => \E u \in {answerVars'} :
            ENABLED (Next /\ answerVars' = u /\ telemetry' # telemetry)]_vars

\* the request returned an answer with a reference although it never had a
\* row in search_runs: the first insert and the last one failed
C20_Witness ==
  /\ outcome = "returned"
  /\ references # <<>>
  /\ telemetry = NoRunRow
  /\ FALSE \in writeSpace

\* ------------------------------------------------------- request claims
\* an invocation of runAgenticSearch that returns without entering the loop
RejectedAtStart(c) ==
  /\ calls[c].status # "loop"
  /\ calls'[c] # calls[c]
  /\ calls'[c].kind = "search"
  /\ calls'[c].status = "returned"

\* C21: a search that is turned away at its start (its last user message is
\* empty) creates no run: no state object and no run id exist for it, no tool
\* has been called, nothing is stored, and the caller gets the fallback
C21_EmptyMessageRejectedBeforeAnyCall ==
  [][\A c \in CallIds :
       RejectedAtStart(c)
         => /\ calls'[c].run = 0
            /\ calls'[c].result = "fallback"
            /\ calls'[c].toolCallCount = 0
            /\ runs' = runs
            /\ agentState' = agentState
            /\ pendingClarifications' = pendingClarifications]_vars

\* the first request of the process had an empty message and is over
C21_Witness ==
  \E c \in CallIds :
    /\ calls[c].kind = "search"
    /\ calls[c].status = "returned"
    /\ calls[c].run = 0
    /\ calls[c].result = "fallback"
    /\ runs = 0

\* C22: a step of the agent loop that finds the runtime ceiling passed while
\* the state holds candidates does not end the request with the error
\* fallback: the candidates go on to the answer
C22_CeilingHandsCandidatesToFinalizer ==
  [][\A c \in CallIds :
       (/\ AgentStep(c)
        /\ calls'[c].status = "returned"
        /\ agentState'[calls[c].run].hasCandidates)
         => calls'[c].result # "fallback"]_vars

\* C23: when hydration and filtering leave no candidate, the pass ends there:
\* no call is counted, the answers of reranker and critic are as they were,
\* the request is not over and stands at the head of the loop; the reranker
\* and the critic are only ever reached with candidates
C23_EmptyFilterSkipsRerankAndCritic ==
  [][/\ (pc \in {"rerank", "critic"}) => ranked # <<>>
     /\ (pc = "hydrate" /\ pc' # pc /\ outcome' = "running" /\ ranked' = <<>>)
          => /\ pc' = "loop"
             /\ toolCalls' = toolCalls
             /\ reranked' = reranked
             /\ critic' = critic
             /\ finalCandidates' = finalCandidates]_vars

\* the first pass gathered candidates, filtering left none of them, no
\* reranker or critic call was made, and the second pass has begun
C23_Witness ==
  /\ outcome = "running"
  /\ iteration = 2
  /\ pc = "plan"
  /\ candidateMap # <<>>
  /\ ranked = <<>>
  /\ reranked = -1
  /\ critic = "none"

\* C24: a pass that follows an extension of the plan by the critic keeps the
\* extended variant set and executes its first six variants
C24_NextPassRunsExtendedVariants ==
  [][(pc = "plan" /\ pc' = "embed" /\ finalPlan.criticVariants > 0)
       => /\ finalPlan'.queryCount = finalPlan.queryCount
          /\ finalPlan'.criticVariants = finalPlan.criticVariants
          /\ queries' = Min(finalPlan.queryCount, MAX_QUERIES)]_vars

C26_AnchorChipOnEveryReference ==
  anchorCompany # 0 =>
    \A i \in 1..Len(references) :
      /\ \E j \in 1..Len(references[i].evidenceChips) :
           references[i].evidenceChips[j] = "Similar to anchor"
      /\ references[i].companyId # anchorCompany

C26_Witness ==
  /\ outcome = "returned"
  /\ similarityIntent
  /\ anchorCompany # 0
  /\ references # <<>>
  /\ \A i \in 1..Len(references) : Len(references[i].evidenceChips) >= 2

\* C27: an answer built from a non-empty terminal candidate set has at most
\* max(1, targetResultCount) references, none of them the anchor, each among the
\* first max(1, targetResultCount) candidates that are not the anchor, in the
\* order of their ranks; an empty terminal set gives the answer with zero
\* references and a final candidate count of zero
C27_FinalizerCutsInRankOrder ==
  outcome = "returned" =>
    IF finalCandidates = <<>>
    THEN references = <<>> /\ telemetry.finalCandidateCount = 0
    ELSE LET limit == Max(1, finalPlan.targetResultCount)
             eligible == IF anchorCompany # 0
                         THEN WithoutAnchor(finalCandidates, anchorCompany)
                         ELSE finalCandidates
             place(i) == IndexOfId(eligible, references[i].companyId)
         IN /\ Len(references) <= limit
            /\ \A i \in 1..Len(references) :
                 /\ references[i].companyId # anchorCompany
                 /\ place(i) \in 1..limit
            /\ \A i, j \in 1..Len(references) :
                 i < j => /\ place(i) < place(j)
                          /\ eligible[place(i)].rank < eligible[place(j)].rank

C27_Witness ==
  /\ outcome = "returned"
  /\ Len(finalCandidates) > Max(1, finalPlan.targetResultCount)
  /\ Len(references) = Max(1, finalPlan.targetResultCount)

\* exactBestByCompany for lookups issued in the order p
RECURSIVE TableOf(_, _, _)
TableOf(log, p, n) ==
  IF n = 0 THEN <<>>
  ELSE LET answer == log[p[n]].answer
           before == TableOf(log, p, n - 1)
       IN IF answer.ok THEN KeepBestRows(before, Take(RowsOf(answer.f, ExactRow), 5))
          ELSE before

\* the lexically first extracted name whose lookup returned the company at
\* the score kept for it
BestTextOf(row) ==
  LET texts == {exactLog[i].candidateText : i \in
                  {k \in 1..Len(exactLog) :
                     /\ exactLog[k].answer.ok
                     /\ row.companyId \in DOMAIN exactLog[k].answer.f
                     /\ exactLog[k].answer.f[row.companyId] = row.nameScore}}
  IN CHOOSE t \in texts : \A u \in texts : t <= u

\* C28: the selected company has the highest kept score; among companies with
\* that score it is the one whose extracted name comes first in lexical order;
\* issuing the same lookups in another order selects the same company
C28_AnchorSelectionIgnoresLookupOrder ==
  topMatch # 0 =>
    LET t == IndexOfId(exactTable, topMatch)
    IN /\ \A j \in 1..Len(exactTable) :
            /\ exactTable[j].nameScore <= exactTable[t].nameScore
            /\ exactTable[j].nameScore = exactTable[t].nameScore
                 => BestTextOf(exactTable[t]) <= BestTextOf(exactTable[j])
       /\ \A p \in Orders(Len(exactLog)) :
            TopExactCompany(TableOf(exactLog, p, Len(exactLog))) = topMatch

\* the text has a part that a collaborator wrote
LeaksInternalText(message) ==
  \E i \in 1..Len(message) : message[i] \in InternalTexts

\* C29: what the user sees of a failed request holds no error text of the
\* database or the completion service, and is the generic message, unless the
\* failure is the schema mismatch that carries the migration hint
C29_FailuresShowGenericMessage ==
  \A i \in 1..Len(responses) :
    (responses[i].failure # NoFailure /\ responses[i].failure.text # SchemaMismatchText)
      => /\ ~LeaksInternalText(responses[i].message)
         /\ responses[i].message = <<SEARCH_UNAVAILABLE_MESSAGE>>

\* a sendMessage call has started and has not returned
SendInProgress == \E t \in 1..MaxSends : sends[t].pc \in {"sleep", "settle"}

\* the places in the rendered messages of the messages of one call and role
PlacesOf(send, role) == {i \in 1..Len(messages) : messages[i].id = <<send, role>>}

\* C30 (as stated): a sendMessage call with empty text, or made while a send is in
\* progress, changes nothing; once an admitted call has completed on the
\* mounted hook and nothing is in progress, the rendered messages hold exactly
\* one user message of the call, followed at once by exactly one assistant
\* message of the call with the 12 fixed references, the activity steps are
\* empty and isLoading is false
C30_SendAppendsOnePairOrNothing ==
  [][\A s \in 1..MaxSends :
       /\ (/\ sends[s].pc = "idle"
           /\ sends'[s].pc # "idle"
           /\ (trim(sends'[s].value) = "" \/ SendInProgress))
            => /\ sends'[s].pc = "returned"
               /\ UNCHANGED <<messages, isLoading, activitySteps, updates>>
       /\ (/\ sends'[s].pc = "returned"
           /\ sends'[s].admitted
           /\ isMounted' /\ updates' = <<>> /\ ~SendInProgress')
            => /\ isLoading' = FALSE
               /\ activitySteps' = <<>>
               /\ \E i \in 1..(Len(messages') - 1) :
                    /\ PlacesOf(s, "user")' = {i}
                    /\ PlacesOf(s, "assistant")' = {i + 1}
                    /\ messages'[i + 1].references = FIXED_REFERENCES]_vars

\* C30 (amended): a sendMessage call with empty text, or made through a
\* callback whose render has isLoading true, returns and changes nothing; any
\* other call is admitted, and once it has completed and the mounted hook has
\* rendered, the messages hold exactly one user message of the call and, after
\* it, exactly one assistant message of the call with the 12 fixed references;
\* with no other send in progress the activity steps are then empty and
\* isLoading is false
C30_GuardedSendAppendsOnePair ==
  [][\A s \in 1..MaxSends :
       /\ (sends[s].pc = "idle" /\ sends'[s].pc # "idle")
            => /\ sends'[s].admitted <=> (trim(sends'[s].value) # "" /\ ~isLoading)
               /\ ~sends'[s].admitted
                    => /\ sends'[s].pc = "returned"
                       /\ UNCHANGED <<messages, isLoading, activitySteps, updates>>
       /\ (/\ sends'[s].pc = "returned"
           /\ sends'[s].admitted
           /\ isMounted' /\ updates' = <<>>)
            => /\ \E i, j \in 1..Len(messages') :
                    /\ i < j
                    /\ PlacesOf(s, "user")' = {i}
                    /\ PlacesOf(s, "assistant")' = {j}
                    /\ messages'[j].references = FIXED_REFERENCES
               /\ ~SendInProgress' => (isLoading' = FALSE /\ activitySteps' = <<>>)]_vars

C30_Witness ==
  /\ isMounted /\ updates = <<>>
  /\ sends[1].pc = "returned" /\ sends[1].admitted
  /\ sends[2].pc = "returned" /\ ~sends[2].admitted /\ trim(sends[2].value) # ""
  /\ Len(messages) = 2
  /\ messages[1].role = "user" /\ messages[2].role = "assistant"
  /\ messages[2].references = FIXED_REFERENCES
  /\ isLoading = FALSE /\ activitySteps = <<>>

\* C31: the loop ends with converged at pass k only if pass k-1 of the same
\* request was ranked and left the same top-5 id sequence; a request never
\* ends with converged on its first ranked pass (through ids of the client
\* context), nor by comparison with a pass other than the one just before.
C31_ConvergedOnlyAgainstPrecedingPass ==
  [][(PolicyStep /\ pc' = "finalize" /\ endReason' = "converged")
       => (PreviousPassRanked /\ IdenticalTopFive)]_vars

\* C32: the tool-call count reported in the telemetry of a request (exact-name
\* lookups, planner, embedding, hybrid, lexical, tag-filter, rerank, critic
\* and final-summary calls) is at most maxToolCalls.
C32_ReportedToolCallsWithinCeiling ==
  /\ telemetry.toolCallCount <= maxToolCalls
  /\ outcome = "returned" => toolCalls <= maxToolCalls

\* C33: the iteration count reported in telemetry equals the number of passes
\* in which the planner was invoked: a pass cut off by the guardrail test at
\* its top is not counted, and an exact-match short-circuit reports 0.
C33_IterationCountIsPlannerInvocations ==
  outcome # "running" =>
    /\ telemetry.iterationCount = plannerCalls
    /\ endReason = "exact_match" => telemetry.iterationCount = 0

\* what retrieval, detail fetches and finalize_search leave in the state
WorkOf(st) ==
  <<st.toolCallCount, st.hasCandidates, st.companyDetailsFetched, st.preliminaryResults>>

\* clarify_with_user has returned awaiting_user in the invocation, which has
\* not returned yet
AwaitingUser(c) ==
  /\ calls[c].status = "loop"
  /\ calls[c].clarificationRequested
  /\ agentState[calls[c].run].clarificationPending

\* C34: once clarify_with_user has returned awaiting_user in a run, the run
\* performs no further retrieval, detail fetch or finalize before it returns:
\* the state held for the session is the state at the moment of the request.
C34_NoWorkAfterAwaitingUser ==
  [][\A c \in CallIds :
       AwaitingUser(c) => WorkOf(agentState'[calls[c].run]) = WorkOf(agentState[calls[c].run])]_vars

\* C35: a resume that finds its session in the store is not failed with a
\* runtime timeout because of the time the user took to answer: however long
\* ago the run started, a step of the resumed loop can finish without the
\* timeout.
C35_ResumeNotTimedOutBySuspension ==
  \A c \in CallIds :
    (calls[c].kind = "resume" /\ MayStep(calls[c]))
      => ENABLED (AgentStep(c) /\ calls'[c].status = "loop")

\* the sweep, and no resume, takes the entry of session s out of the store
SweepDiscards(s) ==
  /\ pendingClarifications[s] # 0
  /\ pendingClarifications'[s] = 0
  /\ calls' = calls

\* C36: a pending clarification session stays resumable for the full TTL
\* counted from its suspension: the sweep discards a session only when its
\* entry was stored more than CLARIFICATION_TIMEOUT_MS ago.
C36_SweepKeepsSessionForTTL ==
  [][\A s \in Sessions : SweepDiscards(s) => s \in expiredSessions]_vars

\* C37: the resumed agent loop has a positive step limit, and the steps of a
\* run and of its resume together never exceed MAX_STEPS: the run took at
\* least the step in which it asked, so the resume takes fewer than MAX_STEPS
\* steps and never more than its limit.
C37_ResumedLoopWithinStepBudget ==
  \A c \in CallIds :
    (calls[c].kind = "resume" /\ calls[c].status = "loop") =>
      /\ calls[c].stepLimit > 0
      /\ calls[c].steps <= calls[c].stepLimit
      /\ calls[c].steps < MAX_STEPS

\* C38: when a request requires clarification before finalization, no final
\* answer with references is returned before the user has answered: neither
\* finalize_search nor the deterministic fallback produces results while the
\* clarification is unsatisfied.
C38_NoAnswerBeforeRequiredClarification ==
  \A c \in CallIds :
    LET st == agentState[calls[c].run] IN
    /\ (calls[c].status = "returned" /\ calls[c].result = "answer"
          /\ st.requireClarificationBeforeFinalize) => st.clarificationSatisfied
    /\ (calls[c].status = "loop" /\ st.preliminaryResults
          /\ st.requireClarificationBeforeFinalize) => st.clarificationSatisfied

\* C39: a final answer with references is produced only if a
\* get_company_details call of the request, or of its suspended predecessor,
\* has returned at least one company; a finalize_search called before that is
\* rejected and leaves the preliminary results unset.
C39_AnswerNeedsFetchedDetails ==
  /\ \A r \in RunIds :
       agentState[r].preliminaryResults => agentState[r].companyDetailsFetched
  /\ \A c \in CallIds :
       calls[c].result = "answer" => agentState[calls[c].run].companyDetailsFetched

\* a resume has answered from results finalized on details that were fetched
\* before the request was suspended
C39_Witness ==
  \E c \in CallIds :
    /\ calls[c].kind = "resume"
    /\ calls[c].result = "answer"
    /\ agentState[calls[c].run].preliminaryResults
    /\ agentState[calls[c].run].companyDetailsFetched
    /\ agentState[calls[c].run].toolCallCount = 1

\* the ids of the references a request has returned, directly or after a resume
Answered == request.stage \in {"answered", "resumed"}

\* C40: in `more` mode no reference of the final answer has an id of the
\* client's previousCandidateIds; in `filter` mode with previous ids every
\* reference id is one of them; both also for an answer produced after a
\* clarification resume; and no reference id appears twice.
C40_ReferencesRespectRequestMode ==
  Answered =>
    LET refs == request.references
        previous == SeqToSet(request.clientIds)
    IN /\ request.requestMode = "more" => \A i \in 1..Len(refs) : refs[i] \notin previous
       /\ (request.requestMode = "filter" /\ request.previousCandidateIds # <<>>)
            => \A i \in 1..Len(refs) : refs[i] \in previous
       /\ \A i, j \in 1..Len(refs) : refs[i] = refs[j] => i = j

\* a resumed `more` request whose client named company 1 twice has returned
\* company 2 alone
C40_Witness ==
  /\ request.stage = "resumed"
  /\ request.requestMode = "more"
  /\ request.clientIds = <<1, 1>>
  /\ request.references = <<2>>
====
